---- MODULE Spec2Model ----
(***************************************************************************)
(* A model of the go-redis server: the connection handler, the command     *)
(* handlers of server.go and the store of storage.go (the revision that    *)
(* carries the expiration table with ExpirationTime records).              *)
(*                                                                         *)
(* Byte strings are sequences of one-character strings, so that the        *)
(* integer conversions (strconv.ParseInt, strconv.FormatInt) are computed  *)
(* digit by digit.  Time is counted in ticks, Second ticks to the second.  *)
(* int64 is scaled down to IntBits bits; additions wrap around at that      *)
(* width as the machine addition does at 64.                               *)
(***************************************************************************)
EXTENDS Integers, Sequences, FiniteSets, TLC

\* ------------------------------------------------------------------ bounds
NumConns == 2
MaxReqs == 2
MaxPipe == 2
MaxTime == 3
MaxList == 2
IntBits == 5
MaxCount == 1
MaxTtl == 3
MaxElems == 3
MaxAsk == 3
MaxPayload == 2
MaxSample == 1
MaxRounds == 2
Second == 2

Conns == 1..NumConns

VARIABLES
    data,   \* Store.data: key -> stored value
    ttl,    \* Store.volatileKeyMap.data: key -> expiration record
    now,    \* the wall clock, in ticks
    smu,    \* Store.mu: the connection holding it exclusively, 0 when free
    inq,    \* per connection: the requests sent and not yet read
    outq,   \* per connection: the replies written (with the request answered)
    sent,   \* per connection: how many traced requests the client has sent
    pc,     \* per connection: where its handler stands
    cur     \* per connection: the request being handled and the handler's locals

vars == <<data, ttl, now, smu, inq, outq, sent, pc, cur>>

\* ------------------------------------------------------------ byte strings
Digits == <<"0", "1", "2", "3", "4", "5", "6", "7", "8", "9">>
DigitSet == {Digits[i] : i \in 1..10}
DigitVal(c) == (CHOOSE i \in 1..10 : Digits[i] = c) - 1

RECURSIVE Pow2(_)
Pow2(n) == IF n = 0 THEN 1 ELSE 2 * Pow2(n - 1)
MinInt == 0 - Pow2(IntBits - 1)
MaxInt == Pow2(IntBits - 1) - 1

\* The machine addition of two's-complement integers of IntBits bits.
WrapAdd(a, b) == ((a + b - MinInt) % Pow2(IntBits)) + MinInt

RECURSIVE DigitsVal(_)
DigitsVal(s) ==
    IF Len(s) = 0 THEN 0
    ELSE 10 * DigitsVal(SubSeq(s, 1, Len(s) - 1)) + DigitVal(s[Len(s)])

\* strconv.ParseInt(s, 10, 64): an optional sign, then one digit at least and
\* digits only; a value outside the integer range is an error.
ParseInt(s) ==
    LET signed == Len(s) > 0 /\ s[1] \in {"+", "-"}
        neg == Len(s) > 0 /\ s[1] = "-"
        body == IF signed THEN Tail(s) ELSE s
    IN  IF Len(body) = 0 \/ (\E i \in 1..Len(body) : body[i] \notin DigitSet)
        THEN [ok |-> FALSE, n |-> 0]
        ELSE LET m == DigitsVal(body)
                 v == IF neg THEN 0 - m ELSE m
             IN  IF v < MinInt \/ v > MaxInt
                 THEN [ok |-> FALSE, n |-> 0]
                 ELSE [ok |-> TRUE, n |-> v]

RECURSIVE FormatNat(_)
FormatNat(n) ==
    IF n < 10 THEN <<Digits[n + 1]>>
    ELSE FormatNat(n \div 10) \o <<Digits[(n % 10) + 1]>>

\* strconv.FormatInt(n, 10)
FormatInt(n) == IF n < 0 THEN <<"-">> \o FormatNat(0 - n) ELSE FormatNat(n)

\* ------------------------------------------------------------ stored values
Absent == [t |-> "none"]
Bytes(b) == [t |-> "bytes", b |-> b]
Counter(n) == [t |-> "int", n |-> n]
List(l) == [t |-> "list", l |-> l]

NoExp == [t |-> "none"]
ExpirationTime(e, d) == [t |-> "exp", expiryTime |-> e, durationSet |-> d]

\* ----------------------------------------------------------------- replies
RSimple(s) == [t |-> "simple", s |-> s]
RErr(e) == [t |-> "err", e |-> e]
RInt(n) == [t |-> "int", n |-> n]
RBulk(b) == [t |-> "bulk", b |-> b]
RNull == [t |-> "null"]
RArray(a) == [t |-> "array", a |-> a]

\* Error texts are tuples: the words, then what fmt.Sprintf puts into them.
ErrWrongType == <<"WRONGTYPE Operation against a key holding the wrong kind of value">>
ErrNotInt == <<"ERR value is not an integer or out of range">>
ErrArgType == <<"ERR wrong argument type">>

\* ---------------------------------------------------------------- requests
\* A request is the array the codec hands to connHandler: the command name and
\* the arguments, all bulk strings.  id is 0, or the position of a traced
\* request in what its connection sent.
Req(name, args) == [name |-> name, args |-> args, id |-> 0]

\* The same request from a client that does not read the reply.
Unread(req) == [req EXCEPT !.id = 0 - 1]

KeyK == <<"k">>
KeyJ == <<"j">>
Keys == {KeyK, KeyJ}

NoCur == [t |-> "none"]

\* The handler's locals while a request is in hand: the request, the value
\* read from the keyspace (val), the prospective set_ttl (dur) and, for the
\* properties about the replies a client reads, the store as it was when the
\* handler took the request (pre).
MkCur(req, val, dur) ==
    [t |-> "cur", req |-> req, val |-> val, dur |-> dur,
     pre |-> IF req.id < 0 THEN NoCur
             ELSE [data |-> data, ttl |-> ttl, now |-> now]]

\* ------------------------------------------------------- command dispatch
\* strings.ToUpper on the command names the clients of this model send.
ToUpper(name) ==
    CASE name = "get" -> "GET"
      [] name = "set" -> "SET"
      [] name = "expire" -> "EXPIRE"
      [] name = "config" -> "CONFIG"
      [] OTHER -> name

CommandNames ==
    {"PING", "ECHO", "GET", "SET", "DEL", "INCR", "DECR", "CONFIG", "EXPIRE",
     "EXPIREAT", "TTL", "LPUSH", "RPUSH", "LPOP", "RPOP", "LRANGE", "LLEN"}

\* A commands table whose pushes ask for a key only.
ArityKeyOnly(cmd) ==
    CASE cmd = "PING" -> 1
      [] cmd \in {"ECHO", "GET", "INCR", "DECR", "TTL", "LLEN"} -> 2
      [] cmd = "SET" -> 3
      [] cmd \in {"DEL", "CONFIG", "LPOP", "RPOP", "LPUSH", "RPUSH"} -> 0 - 2
      [] cmd \in {"EXPIRE", "EXPIREAT"} -> 0 - 3
      [] cmd = "LRANGE" -> 4

\* The arity column of the commands table: positive is exact, negative is a
\* minimum, counted on the whole array (the name included).
Arity(cmd) ==
    CASE cmd = "PING" -> 1
      [] cmd \in {"ECHO", "GET", "INCR", "DECR", "TTL", "LLEN"} -> 2
      [] cmd = "SET" -> 3
      [] cmd \in {"DEL", "CONFIG", "LPOP", "RPOP"} -> 0 - 2
      [] cmd \in {"EXPIRE", "EXPIREAT", "LPUSH", "RPUSH"} -> 0 - 3
      [] cmd = "LRANGE" -> 4

ArrLen(req) == 1 + Len(req.args)

\* An arity check that takes every arity for a minimum.
ArityAtLeast(req) ==
    LET a == Arity(ToUpper(req.name))
    IN  IF a > 0 THEN ArrLen(req) >= a ELSE ArrLen(req) >= 0 - a

ArityOK(req) ==
    LET a == Arity(ToUpper(req.name))
    IN  IF a > 0 THEN ArrLen(req) = a ELSE ArrLen(req) >= 0 - a

\* A connHandler that picks up the request that arrived last.
NewestReq(p) == inq[p][Len(inq[p])]

\* connHandler: parser.Deserialize(reader) yields the requests of the
\* connection in the order they arrived.
NextReq(p) == Head(inq[p])

\* connHandler has read a request for one of the commands `names` and is
\* about to call its handler.
Dispatches(p, names) ==
    /\ pc[p] = "idle"
    /\ inq[p] # <<>>
    /\ ToUpper(NextReq(p).name) \in names
    /\ ArityOK(NextReq(p))

\* sync.RWMutex of the store: Lock waits until nobody holds it; so does RLock,
\* since in this model the mutex is only ever held exclusively across steps.
CanLock(p) == smu = 0
CanRLock(p) == smu = 0

\* connHandler writes the reply and loops.  The replies of traced requests
\* (id > 0) are all kept; of the others only the latest is, and none for a
\* client that does not read them (id < 0).
Written(p, req, rep) ==
    IF req.id = 0 THEN <<[req |-> req, reply |-> rep]>>
    ELSE IF req.id < 0 THEN outq[p]
    ELSE Append(outq[p], [req |-> req, reply |-> rep])

\* The handler of a request read in this very step replies.
ReplyNow(p, rep) ==
    /\ outq' = [outq EXCEPT ![p] = Written(p, NextReq(p), rep)]
    /\ inq' = [inq EXCEPT ![p] = Tail(@)]
    /\ pc' = pc
    /\ cur' = cur

\* The handler of the request in hand replies.
ReplyCur(p, rep) ==
    /\ outq' = [outq EXCEPT ![p] = Written(p, cur[p].req, rep)]
    /\ pc' = [pc EXCEPT ![p] = "idle"]
    /\ cur' = [cur EXCEPT ![p] = NoCur]
    /\ inq' = inq

\* The handler takes the request in hand and goes on at `at`.
Take(p, at, val, dur) ==
    /\ inq' = [inq EXCEPT ![p] = Tail(@)]
    /\ pc' = [pc EXCEPT ![p] = at]
    /\ cur' = [cur EXCEPT ![p] = MkCur(NextReq(p), val, dur)]
    /\ outq' = outq

\* The handler in hand goes on at `at`.
Goto(p, at) ==
    /\ pc' = [pc EXCEPT ![p] = at]
    /\ UNCHANGED <<inq, outq, cur>>

\* ------------------------------------------------------------- SET and DEL
\* A Set that stores only where the key is absent.
StoreSetIfAbsent(d, key, val) ==
    IF d[key] = Absent THEN [d EXCEPT ![key] = Bytes(val)] ELSE d

\* Store.Set
StoreSet(d, key, val) == [d EXCEPT ![key] = Bytes(val)]

\* A SET that makes the key persistent: it drops the key's expiration record.
HandleSetPersists(p) ==
    /\ Dispatches(p, {"SET"})
    /\ CanLock(p)
    /\ LET req == NextReq(p)
       IN  /\ data' = [data EXCEPT ![req.args[1]] = Bytes(req.args[2])]
           /\ ttl' = [ttl EXCEPT ![req.args[1]] = [t |-> "none"]]
           /\ ReplyNow(p, RSimple("OK"))
    /\ UNCHANGED <<now, smu, sent>>

HandleSet(p) ==
    /\ Dispatches(p, {"SET"})
    /\ CanLock(p)
    /\ LET req == NextReq(p)
       IN  /\ data' = StoreSet(data, req.args[1], req.args[2])
           /\ ReplyNow(p, RSimple("OK"))
    /\ UNCHANGED <<ttl, now, smu, sent>>

\* A Del that counts every key it is given, in the keyspace or not.
DelLoopCountsAll(d, keys, count) ==
    [data |-> [k \in DOMAIN d |->
                  IF \E i \in 1..Len(keys) : keys[i] = k THEN Absent ELSE d[k]],
     count |-> count + Len(keys)]

RECURSIVE DelLoop(_, _, _)
DelLoop(d, keys, count) ==
    IF keys = <<>> THEN [data |-> d, count |-> count]
    ELSE IF d[Head(keys)] # Absent
         THEN DelLoop([d EXCEPT ![Head(keys)] = Absent], Tail(keys), count + 1)
         ELSE DelLoop(d, Tail(keys), count)

\* Store.Del: the keyspace after it and the count it returns.
StoreDel(d, keys) == DelLoop(d, keys, 0)

HandleDel(p) ==
    /\ Dispatches(p, {"DEL"})
    /\ CanLock(p)
    /\ LET r == StoreDel(data, NextReq(p).args)
       IN  /\ data' = r.data
           /\ ReplyNow(p, RInt(r.count))
    /\ UNCHANGED <<ttl, now, smu, sent>>

\* ----------------------------------------------------------- INCR and DECR
\* An IncrBy whose type switch starts a fresh counter on any other value.
IncrByOutcomeNoTypeCheck(val, delta) ==
    IF val = Absent THEN [ok |-> TRUE, n |-> delta, err |-> <<>>]
    ELSE IF val.t = "bytes"
    THEN LET r == ParseInt(val.b)
         IN  IF r.ok THEN [ok |-> TRUE, n |-> WrapAdd(r.n, delta), err |-> <<>>]
             ELSE [ok |-> FALSE, n |-> 0, err |-> ErrNotInt]
    ELSE IF val.t = "int"
    THEN [ok |-> TRUE, n |-> WrapAdd(val.n, delta), err |-> <<>>]
    ELSE [ok |-> TRUE, n |-> delta, err |-> <<>>]

\* An IncrBy that starts from zero on Bytes instead of parsing them.
IncrByOutcomeBytesUnread(val, delta) ==
    IF val = Absent \/ val.t = "bytes" THEN [ok |-> TRUE, n |-> delta, err |-> <<>>]
    ELSE IF val.t = "int"
    THEN [ok |-> TRUE, n |-> WrapAdd(val.n, delta), err |-> <<>>]
    ELSE [ok |-> FALSE, n |-> 0, err |-> ErrWrongType]

\* An IncrBy that counts Bytes it cannot parse as zero.
IncrByOutcomeLenient(val, delta) ==
    IF val = Absent THEN [ok |-> TRUE, n |-> delta, err |-> <<>>]
    ELSE IF val.t = "bytes"
    THEN [ok |-> TRUE, n |-> WrapAdd(ParseInt(val.b).n, delta), err |-> <<>>]
    ELSE IF val.t = "int"
    THEN [ok |-> TRUE, n |-> WrapAdd(val.n, delta), err |-> <<>>]
    ELSE [ok |-> FALSE, n |-> 0, err |-> ErrWrongType]

\* Store.IncrBy after the lookup: what it stores and returns for the value
\* `val` it found.
IncrByOutcome(val, delta) ==
    IF val = Absent THEN [ok |-> TRUE, n |-> delta, err |-> <<>>]
    ELSE IF val.t = "bytes"
    THEN LET r == ParseInt(val.b)
         IN  IF r.ok THEN [ok |-> TRUE, n |-> WrapAdd(r.n, delta), err |-> <<>>]
             ELSE [ok |-> FALSE, n |-> 0, err |-> ErrNotInt]
    ELSE IF val.t = "int"
    THEN [ok |-> TRUE, n |-> WrapAdd(val.n, delta), err |-> <<>>]
    ELSE [ok |-> FALSE, n |-> 0, err |-> ErrWrongType]

\* Store.Incr is IncrBy(key, 1), Store.Decr is IncrBy(key, -1).
Delta(req) == IF ToUpper(req.name) = "INCR" THEN 1 ELSE 0 - 1

\* IncrBy entered without waiting for the lock.
HandleIncrNoLock(p) ==
    /\ Dispatches(p, {"INCR", "DECR"})
    /\ smu' = p
    /\ Take(p, "incr_read", Absent, 0)
    /\ UNCHANGED <<data, ttl, now, sent>>

\* handleIncr, handleDecr up to s.mu.Lock() of IncrBy.
HandleIncr(p) ==
    /\ Dispatches(p, {"INCR", "DECR"})
    /\ CanLock(p)
    /\ smu' = p
    /\ Take(p, "incr_read", Absent, 0)
    /\ UNCHANGED <<data, ttl, now, sent>>

\* IncrBy: val, exists := s.data[key]
IncrRead(p) ==
    /\ pc[p] = "incr_read"
    /\ cur' = [cur EXCEPT ![p].val = data[cur[p].req.args[1]]]
    /\ pc' = [pc EXCEPT ![p] = "incr_store"]
    /\ UNCHANGED <<data, ttl, now, smu, inq, outq, sent>>

\* IncrBy: parse, add, store, unlock; the handler replies.
IncrStore(p) ==
    /\ pc[p] = "incr_store"
    /\ LET key == cur[p].req.args[1]
           r == IncrByOutcome(cur[p].val, Delta(cur[p].req))
       IN  /\ data' = IF r.ok THEN [data EXCEPT ![key] = Counter(r.n)] ELSE data
           /\ ReplyCur(p, IF r.ok THEN RInt(r.n) ELSE RErr(r.err))
    /\ smu' = 0
    /\ UNCHANGED <<ttl, now, sent>>

\* --------------------------------------------------------------------- GET
\* WrapValue
WrapValue(val) ==
    IF val.t = "bytes" THEN [b |-> val.b, ok |-> TRUE]
    ELSE IF val.t = "int" THEN [b |-> FormatInt(val.n), ok |-> TRUE]
    ELSE [b |-> <<>>, ok |-> FALSE]

\* Store.GetWithTypeCheck on a live key, and handleGet's reply for it: the
\* bytes of a Bytes or Counter value, the wrong-type error for a List.
GetReply(val) ==
    IF WrapValue(val).ok THEN RBulk(WrapValue(val).b) ELSE RErr(ErrWrongType)

\* An IsValid that never compares the clock with the deadline.
IsValidNoExpiry(rec, t) == [valid |-> rec # NoExp, rec |-> rec]

\* TTLMap.IsValid: whether the record stands, and the record left behind.
IsValid(rec, t) ==
    IF rec = NoExp THEN [valid |-> FALSE, rec |-> NoExp]
    ELSE IF ~(t < rec.expiryTime) THEN [valid |-> FALSE, rec |-> NoExp]
    ELSE [valid |-> TRUE, rec |-> rec]

\* Get: the lookup under the shared lock.
HandleGet(p) ==
    /\ Dispatches(p, {"GET"})
    /\ CanRLock(p)
    /\ LET val == data[NextReq(p).args[1]]
       IN  IF val = Absent THEN ReplyNow(p, RNull)
           ELSE Take(p, "get_vol", val, 0)
    /\ UNCHANGED <<data, ttl, now, smu, sent>>

\* Get: s.isVolatile(key)
GetIsVolatile(p) ==
    /\ pc[p] = "get_vol"
    /\ IF ttl[cur[p].req.args[1]] = NoExp
       THEN ReplyCur(p, GetReply(cur[p].val))
       ELSE Goto(p, "get_valid")
    /\ UNCHANGED <<data, ttl, now, smu, sent>>

\* Get: s.volatileKeyMap.IsValid(key)
GetIsValid(p) ==
    /\ pc[p] = "get_valid"
    /\ LET key == cur[p].req.args[1]
           r == IsValid(ttl[key], now)
       IN  /\ ttl' = [ttl EXCEPT ![key] = r.rec]
           /\ IF r.valid THEN ReplyCur(p, GetReply(cur[p].val))
              ELSE Goto(p, "get_del")
    /\ UNCHANGED <<data, now, smu, sent>>

\* Get: the deferred s.Del(key); the handler replies null.
GetDel(p) ==
    /\ pc[p] = "get_del"
    /\ CanLock(p)
    /\ data' = StoreDel(data, <<cur[p].req.args[1]>>).data
    /\ ReplyCur(p, RNull)
    /\ UNCHANGED <<ttl, now, smu, sent>>

\* --------------------------------------------------- EXPIRE and EXPIREAT
OptNX == <<"N", "X">>
OptXX == <<"X", "X">>
OptGT == <<"G", "T">>
OptLT == <<"L", "T">>

\* time.Unix(t, 0), in ticks
UnixTime(t) == t * Second

\* Store.isVolatile
IsVolatile(tt, key) == tt[key] # NoExp

\* TTLMap.Delete
TTLDelete(tt, key) == [tt EXCEPT ![key] = NoExp]

\* getSetterAndDuration: the duration it returns for the parsed time t.
SetDuration(req, t, clock) ==
    IF req.name = "EXPIRE" THEN t * Second ELSE UnixTime(t) - clock

\* withTTL / withUnixExpiry: the record the setter writes when it runs at
\* `clock`, dur being the duration computed by getSetterAndDuration.
SetterRecord(req, dur, clock) ==
    IF req.name = "EXPIRE" THEN ExpirationTime(clock + dur, dur)
    ELSE ExpirationTime(UnixTime(ParseInt(req.args[2]).n), dur)

\* TTLMap.apply -> setExpiration
Apply(tt, key, rec) == [tt EXCEPT ![key] = rec]

\* handleExpire up to its first access to the expiration table: the removal
\* of the record (negative time), the unconditional apply (no option), or
\* isVolatile of handleExpireOption.
HandleExpire(p) ==
    /\ Dispatches(p, {"EXPIRE", "EXPIREAT"})
    /\ LET req == NextReq(p)
           key == req.args[1]
           t == ParseInt(req.args[2])
           dur == SetDuration(req, t.n, now)
           opt == req.args[3]
       IN  IF ~t.ok THEN ttl' = ttl /\ ReplyNow(p, RErr(ErrArgType))
           ELSE IF req.name \notin {"EXPIRE", "EXPIREAT"}
           THEN ttl' = ttl /\ ReplyNow(p, RErr(ErrArgType))
           ELSE IF \/ (req.name = "EXPIRE" /\ t.n < 0)
                   \/ (req.name = "EXPIREAT" /\ UnixTime(t.n) < now)
           THEN ttl' = TTLDelete(ttl, key) /\ ReplyNow(p, RInt(1))
           ELSE IF Len(req.args) <= 2
           THEN /\ ttl' = Apply(ttl, key, SetterRecord(req, dur, now))
                /\ ReplyNow(p, RInt(1))
           ELSE /\ ttl' = ttl
                /\ IF opt = OptNX
                   THEN IF IsVolatile(ttl, key) THEN ReplyNow(p, RInt(0))
                        ELSE Take(p, "exp_apply", Absent, dur)
                   ELSE IF opt = OptXX
                   THEN IF IsVolatile(ttl, key) THEN Take(p, "exp_apply", Absent, dur)
                        ELSE ReplyNow(p, RInt(0))
                   ELSE IF opt \in {OptGT, OptLT}
                   THEN IF IsVolatile(ttl, key) THEN Take(p, "exp_dur", Absent, dur)
                        ELSE ReplyNow(p, RInt(0))
                   ELSE ReplyNow(p, RErr(<<"ERR Unsupported option", opt>>))
    /\ UNCHANGED <<data, now, smu, sent>>

\* TTLMap.GetSetDuration: the durationSet of the key's record, and whether
\* there is a record.
GetSetDuration(rec) ==
    IF rec = NoExp THEN [ok |-> FALSE, d |-> 0]
    ELSE [ok |-> TRUE, d |-> rec.durationSet]

\* A comparison that lets an equal duration through.
DurationAllowsOrEqual(opt, dur, rec) ==
    /\ GetSetDuration(rec).ok
    /\ IF opt = OptGT THEN dur >= GetSetDuration(rec).d
       ELSE dur <= GetSetDuration(rec).d

\* handleExpireOption, GT and LT: ok == nil && duration > originalDuration
\* (GT), duration < originalDuration (LT).
DurationAllows(opt, dur, rec) ==
    /\ GetSetDuration(rec).ok
    /\ IF opt = OptGT THEN dur > GetSetDuration(rec).d
       ELSE dur < GetSetDuration(rec).d

\* handleExpireOption, GT and LT: GetSetDuration and the comparison.
ExpireGetDuration(p) ==
    /\ pc[p] = "exp_dur"
    /\ LET req == cur[p].req
       IN  IF DurationAllows(req.args[3], cur[p].dur, ttl[req.args[1]])
           THEN Goto(p, "exp_apply")
           ELSE ReplyCur(p, RInt(0))
    /\ UNCHANGED <<data, ttl, now, smu, sent>>

\* handleExpireOption: store.volatileKeyMap.apply(key, setter); reply 1.
ExpireApply(p) ==
    /\ pc[p] = "exp_apply"
    /\ ttl' = Apply(ttl, cur[p].req.args[1], SetterRecord(cur[p].req, cur[p].dur, now))
    /\ ReplyCur(p, RInt(1))
    /\ UNCHANGED <<data, now, smu, sent>>

\* --------------------------------------------------------------------- TTL
\* TTLMap.GetTTL: the time left to the deadline of the record, or an error
\* when there is no record.  For a record whose deadline has passed either
\* outcome is possible: the error, or the time left, which is not positive.
GetTTL(rec, clock) ==
    IF rec = NoExp THEN {[ok |-> FALSE, d |-> 0]}
    ELSE IF clock < rec.expiryTime
    THEN {[ok |-> TRUE, d |-> rec.expiryTime - clock]}
    ELSE {[ok |-> FALSE, d |-> 0], [ok |-> TRUE, d |-> rec.expiryTime - clock]}

\* int64(ttl / time.Second): the quotient truncated toward zero.
TruncDiv(a, b) == IF a >= 0 THEN a \div b ELSE 0 - ((0 - a) \div b)

\* handleTTL after store.Get: -1 when Get found a value, -2 when it did not.
TTLReply(val) == RInt(IF WrapValue(val).ok THEN 0 - 1 ELSE 0 - 2)

\* handleTTL: GetTTL, and the reply in whole seconds when it gives a time.
HandleTTL(p) ==
    /\ Dispatches(p, {"TTL"})
    /\ \E r \in GetTTL(ttl[NextReq(p).args[1]], now) :
          IF r.ok THEN ReplyNow(p, RInt(TruncDiv(r.d, Second)))
          ELSE Take(p, "ttl_get", Absent, 0)
    /\ UNCHANGED <<data, ttl, now, smu, sent>>

\* handleTTL, GetTTL failed: store.Get, the lookup under the shared lock.
TTLGet(p) ==
    /\ pc[p] = "ttl_get"
    /\ CanRLock(p)
    /\ LET val == data[cur[p].req.args[1]]
       IN  IF val = Absent THEN ReplyCur(p, RInt(0 - 2))
           ELSE /\ pc' = [pc EXCEPT ![p] = "ttl_vol"]
                /\ cur' = [cur EXCEPT ![p].val = val]
                /\ UNCHANGED <<inq, outq>>
    /\ UNCHANGED <<data, ttl, now, smu, sent>>

\* handleTTL, store.Get: s.isVolatile(key)
TTLIsVolatile(p) ==
    /\ pc[p] = "ttl_vol"
    /\ IF ttl[cur[p].req.args[1]] = NoExp
       THEN ReplyCur(p, TTLReply(cur[p].val))
       ELSE Goto(p, "ttl_valid")
    /\ UNCHANGED <<data, ttl, now, smu, sent>>

\* handleTTL, store.Get: s.volatileKeyMap.IsValid(key)
TTLIsValid(p) ==
    /\ pc[p] = "ttl_valid"
    /\ LET key == cur[p].req.args[1]
           r == IsValid(ttl[key], now)
       IN  /\ ttl' = [ttl EXCEPT ![key] = r.rec]
           /\ IF r.valid THEN ReplyCur(p, TTLReply(cur[p].val))
              ELSE Goto(p, "ttl_del")
    /\ UNCHANGED <<data, now, smu, sent>>

\* handleTTL, store.Get: the deferred s.Del(key); Get found nothing.
TTLDel(p) ==
    /\ pc[p] = "ttl_del"
    /\ CanLock(p)
    /\ data' = StoreDel(data, <<cur[p].req.args[1]>>).data
    /\ ReplyCur(p, RInt(0 - 2))
    /\ UNCHANGED <<ttl, now, smu, sent>>

\* ------------------------------------------------------------------- lists
RECURSIVE Reverse(_)
Reverse(s) == IF s = <<>> THEN <<>> ELSE Append(Reverse(Tail(s)), Head(s))

Min(a, b) == IF a < b THEN a ELSE b
Max(a, b) == IF a < b THEN b ELSE a

\* A volatile key whose deadline has passed.
Expired(d, tt, key, clock) ==
    d[key] # Absent /\ tt[key] # NoExp /\ ~(clock < tt[key].expiryTime)

\* What an operation on `key` finds: nothing when the key has expired.
Lookup(d, tt, key, clock) == IF Expired(d, tt, key, clock) THEN Absent ELSE d[key]

\* The keyspace and the expiration table once a mutator has dropped the
\* expired key it came across.
DataEvicted(d, tt, key, clock) ==
    IF Expired(d, tt, key, clock) THEN [d EXCEPT ![key] = Absent] ELSE d
TtlEvicted(d, tt, key, clock) ==
    IF Expired(d, tt, key, clock) THEN [tt EXCEPT ![key] = NoExp] ELSE tt

\* Store.LPush / Store.RPush: the list after the push onto `l`.
LPushed(l, elems) == Reverse(elems) \o l
RPushed(l, elems) == l \o elems

\* handleLPush / handleRPush with the store operation, one critical section.
PushStep(p, left) ==
    /\ CanLock(p)
    /\ LET req == NextReq(p)
           key == req.args[1]
           elems == Tail(req.args)
           val == Lookup(data, ttl, key, now)
           old == IF val = Absent THEN <<>> ELSE val.l
           new == IF left THEN LPushed(old, elems) ELSE RPushed(old, elems)
       IN  IF val.t \in {"bytes", "int"}
           THEN /\ UNCHANGED <<data, ttl>>
                /\ ReplyNow(p, RErr(ErrWrongType))
           ELSE /\ data' = [DataEvicted(data, ttl, key, now)
                               EXCEPT ![key] = List(new)]
                /\ ttl' = TtlEvicted(data, ttl, key, now)
                /\ ReplyNow(p, RInt(Len(new)))
    /\ UNCHANGED <<now, smu, sent>>

\* An LPUSH that appends at the tail.
HandleLPushAtTail(p) == Dispatches(p, {"LPUSH"}) /\ PushStep(p, FALSE)

HandleLPush(p) == Dispatches(p, {"LPUSH"}) /\ PushStep(p, TRUE)

\* An RPUSH that prepends at the head.
HandleRPushAtHead(p) == Dispatches(p, {"RPUSH"}) /\ PushStep(p, TRUE)

HandleRPush(p) == Dispatches(p, {"RPUSH"}) /\ PushStep(p, FALSE)

\* An LPop that returns the head elements and leaves them in the list.
LPoppedNotRemoved(l, count) ==
    [got |-> SubSeq(l, 1, Min(count, Len(l))), rest |-> l]

\* Store.LPop / Store.RPop on the list `l`, count >= 1: what is returned and
\* what is left.
LPopped(l, count) ==
    LET c == Min(count, Len(l))
    IN  [got |-> SubSeq(l, 1, c), rest |-> SubSeq(l, c + 1, Len(l))]
RPopped(l, count) ==
    LET c == Min(count, Len(l))
    IN  [got |-> SubSeq(l, Len(l) - c + 1, Len(l)), rest |-> SubSeq(l, 1, Len(l) - c)]

\* The keyspace entry of a list after a pop: no entry for the empty list.
ListEntry(l) == IF l = <<>> THEN Absent ELSE List(l)

\* handleLPop / handleRPop with the store operation, one critical section.
PopStep(p, left) ==
    /\ CanLock(p)
    /\ LET req == NextReq(p)
           key == req.args[1]
           hasCount == Len(req.args) > 1
           c == IF hasCount THEN ParseInt(req.args[2]) ELSE [ok |-> TRUE, n |-> 1]
           val == Lookup(data, ttl, key, now)
       IN  IF ~c.ok
           THEN UNCHANGED <<data, ttl>> /\ ReplyNow(p, RErr(ErrNotInt))
           ELSE IF val.t \in {"bytes", "int"}
           THEN UNCHANGED <<data, ttl>> /\ ReplyNow(p, RErr(ErrWrongType))
           ELSE IF val = Absent
           THEN /\ data' = DataEvicted(data, ttl, key, now)
                /\ ttl' = TtlEvicted(data, ttl, key, now)
                /\ ReplyNow(p, RNull)
           ELSE LET r == IF left THEN LPopped(val.l, c.n) ELSE RPopped(val.l, c.n)
                IN  /\ data' = [data EXCEPT ![key] = ListEntry(r.rest)]
                    /\ ttl' = ttl
                    /\ ReplyNow(p, IF hasCount THEN RArray(r.got) ELSE RBulk(r.got[1]))
    /\ UNCHANGED <<now, smu, sent>>

\* An LPOP that takes from the tail.
HandleLPopAtTail(p) == Dispatches(p, {"LPOP"}) /\ PopStep(p, FALSE)

HandleLPop(p) == Dispatches(p, {"LPOP"}) /\ PopStep(p, TRUE)

\* An RPOP that takes from the head.
HandleRPopAtHead(p) == Dispatches(p, {"RPOP"}) /\ PopStep(p, TRUE)

HandleRPop(p) == Dispatches(p, {"RPOP"}) /\ PopStep(p, FALSE)

\* An LRange whose stop index is excluded from the range.
LRangeStopExcluded(l, start, stop) ==
    LET n == Len(l)
        s0 == IF start < 0 THEN n + start ELSE start
        e0 == IF stop < 0 THEN n + stop ELSE stop
        s1 == Max(s0, 0)
        e1 == Min(e0, n - 1)
    IN  IF s1 > e1 THEN <<>> ELSE SubSeq(l, s1 + 1, e1)

\* Store.LRange on the list `l`
LRange(l, start, stop) ==
    LET n == Len(l)
        s0 == IF start < 0 THEN n + start ELSE start
        e0 == IF stop < 0 THEN n + stop ELSE stop
        s1 == Max(s0, 0)
        e1 == Min(e0, n - 1)
    IN  IF s1 > e1 THEN <<>> ELSE SubSeq(l, s1 + 1, e1 + 1)

HandleLRange(p) ==
    /\ Dispatches(p, {"LRANGE"})
    /\ CanRLock(p)
    /\ LET req == NextReq(p)
           start == ParseInt(req.args[2])
           stop == ParseInt(req.args[3])
           val == Lookup(data, ttl, req.args[1], now)
       IN  IF ~start.ok \/ ~stop.ok THEN ReplyNow(p, RErr(ErrNotInt))
           ELSE IF val.t \in {"bytes", "int"} THEN ReplyNow(p, RErr(ErrWrongType))
           ELSE IF val = Absent THEN ReplyNow(p, RArray(<<>>))
           ELSE ReplyNow(p, RArray(LRange(val.l, start.n, stop.n)))
    /\ UNCHANGED <<data, ttl, now, smu, sent>>

\* An LLEN that tells only whether there is a list.
HandleLLenAsExists(p) ==
    /\ Dispatches(p, {"LLEN"})
    /\ CanRLock(p)
    /\ LET val == Lookup(data, ttl, NextReq(p).args[1], now)
       IN  IF val.t \in {"bytes", "int"} THEN ReplyNow(p, RErr(ErrWrongType))
           ELSE IF val = Absent THEN ReplyNow(p, RInt(0))
           ELSE ReplyNow(p, RInt(1))
    /\ UNCHANGED <<data, ttl, now, smu, sent>>

HandleLLen(p) ==
    /\ Dispatches(p, {"LLEN"})
    /\ CanRLock(p)
    /\ LET val == Lookup(data, ttl, NextReq(p).args[1], now)
       IN  IF val.t \in {"bytes", "int"} THEN ReplyNow(p, RErr(ErrWrongType))
           ELSE IF val = Absent THEN ReplyNow(p, RInt(0))
           ELSE ReplyNow(p, RInt(Len(val.l)))
    /\ UNCHANGED <<data, ttl, now, smu, sent>>

\* --------------------------------------------- connHandler's error replies
\* connHandler on a request whose command is unknown or whose element count
\* violates the arity: an error reply that names the command, no handler.
ConnError(p) ==
    /\ pc[p] = "idle"
    /\ inq[p] # <<>>
    /\ LET req == NextReq(p)
           cmd == ToUpper(req.name)
       IN  IF cmd \notin CommandNames
           THEN ReplyNow(p, RErr(<<"ERR unknown command", cmd>>))
           ELSE /\ ~ArityOK(req)
                /\ ReplyNow(p, RErr(<<"ERR wrong number of arguments for", cmd>>))
    /\ UNCHANGED <<data, ttl, now, smu, sent>>

\* ----------------------------------------------------------------- sweeper
\* The background sweeper on a sampled key: a record whose deadline has
\* passed goes, and the key with it.
Sweep(key) ==
    /\ smu = 0
    /\ ttl[key] # NoExp
    /\ ~(now < ttl[key].expiryTime)
    /\ data' = [data EXCEPT ![key] = Absent]
    /\ ttl' = [ttl EXCEPT ![key] = NoExp]
    /\ UNCHANGED <<now, smu, inq, outq, sent, pc, cur>>

\* ------------------------------------------------------------------- clock
Tick ==
    /\ now < MaxTime
    /\ now' = now + 1
    /\ UNCHANGED <<data, ttl, smu, inq, outq, sent, pc, cur>>

\* ----------------------------------------------------------------- clients
\* A client writes a request on its connection without waiting for replies.
Send(p, req) ==
    /\ Len(inq[p]) < MaxPipe
    /\ inq' = [inq EXCEPT ![p] = Append(@, req)]
    /\ UNCHANGED <<data, ttl, now, smu, outq, sent, pc, cur>>

\* A client that waits for each reply before it sends the next request.
Call(p, req) ==
    /\ pc[p] = "idle"
    /\ inq[p] = <<>>
    /\ Send(p, req)

\* The same, the request being numbered in the order the client sends.
SendTraced(p, req) ==
    /\ sent[p] < MaxReqs
    /\ inq' = [inq EXCEPT ![p] = Append(@, [req EXCEPT !.id = sent[p] + 1])]
    /\ sent' = [sent EXCEPT ![p] = @ + 1]
    /\ UNCHANGED <<data, ttl, now, smu, outq, pc, cur>>

\* newStore(), no connection has sent anything.
EmptyStore ==
    /\ data = [k \in Keys |-> Absent]
    /\ ttl = [k \in Keys |-> NoExp]
    /\ smu = 0

NoTraffic ==
    /\ inq = [p \in Conns |-> <<>>]
    /\ outq = [p \in Conns |-> <<>>]
    /\ sent = [p \in Conns |-> 0]
    /\ pc = [p \in Conns |-> "idle"]
    /\ cur = [p \in Conns |-> NoCur]

\* ------------------------------------------------ what a step has completed
\* Connection p writes a reply in this step.
Completes(p) ==
    \/ pc[p] = "idle" /\ pc'[p] = "idle" /\ inq[p] # <<>> /\ inq'[p] = Tail(inq[p])
    \/ pc[p] # "idle" /\ pc'[p] = "idle"

\* The request it answers, the reply, and the store and clock as they were
\* when the handler took the request.
DoneReq(p) == IF pc[p] = "idle" THEN NextReq(p) ELSE cur[p].req
DoneReply(p) == outq'[p][Len(outq'[p])].reply
Pre(p) ==
    IF pc[p] = "idle" THEN [data |-> data, ttl |-> ttl, now |-> now]
    ELSE cur[p].pre

\* The latest reply on connection p is `rep`, to a request named `name`.
Replied(p, name, rep) ==
    /\ outq[p] # <<>>
    /\ outq[p][Len(outq[p])].req.name = name
    /\ outq[p][Len(outq[p])].reply = rep

\* The client keeps counters within MaxCount and lists within MaxList.
InRoom(req) ==
    LET val == data[req.args[1]]
    IN  /\ (req.name \in {"INCR", "DECR"} /\ val.t = "int")
               => (val.n + Delta(req) \in (0 - MaxCount)..MaxCount)
        /\ (req.name \in {"LPUSH", "RPUSH"} /\ val.t = "list")
               => (Len(val.l) + Len(req.args) - 1 <= MaxList)

ElA == <<"a">>
ElB == <<"b">>
Num(n) == FormatInt(n)

\* ======================================================================
\* One client, which waits for each reply: SET, GET, DEL, INCR, DECR, the
\* list commands and EXPIRE on key k (DEL and SET on key j too), and the
\* clock.  Nothing interferes with a request between its start and its reply.
\* ======================================================================
ReqsStore ==
    {Req("SET", <<KeyK, ElA>>), Req("SET", <<KeyK, Num(1)>>), Req("SET", <<KeyJ, ElA>>),
     Req("GET", <<KeyK>>),
     Req("DEL", <<KeyK>>), Req("DEL", <<KeyK, KeyJ>>), Req("DEL", <<KeyK, KeyK>>),
     Req("INCR", <<KeyK>>), Req("DECR", <<KeyK>>),
     Req("EXPIRE", <<KeyK, Num(1)>>),
     Req("LPUSH", <<KeyK, ElA>>), Req("RPUSH", <<KeyK, ElA, ElB>>),
     Req("LPOP", <<KeyK>>), Req("RPOP", <<KeyK, Num(2)>>),
     Req("LRANGE", <<KeyK, Num(0), Num(0 - 1)>>), Req("LLEN", <<KeyK>>)}

ClientStore == \E r \in ReqsStore : InRoom(r) /\ Call(1, r)

InitStore == EmptyStore /\ NoTraffic /\ now = 0

NextStore ==
    \/ ClientStore
    \/ Tick
    \/ \E p \in Conns :
        \/ HandleSet(p)
        \/ HandleDel(p)
        \/ HandleIncr(p)
        \/ IncrRead(p)
        \/ IncrStore(p)
        \/ HandleGet(p)
        \/ GetIsVolatile(p)
        \/ GetIsValid(p)
        \/ GetDel(p)
        \/ HandleExpire(p)
        \/ HandleLPush(p)
        \/ HandleRPush(p)
        \/ HandleLPop(p)
        \/ HandleRPop(p)
        \/ HandleLRange(p)
        \/ HandleLLen(p)

SpecStore == InitStore /\ [][NextStore]_vars

ListCmds == {"LPUSH", "RPUSH", "LPOP", "RPOP", "LRANGE", "LLEN"}

\* The key had no expiration record at `pre`, or its deadline is still ahead
\* at `clock`.
Live(pre, key, clock) ==
    pre.ttl[key] = NoExp \/ clock < pre.ttl[key].expiryTime

\* A command of one type on a live key that holds a value of another.
WrongTypeCase(req, pre, clock) ==
    LET key == req.args[1]
        val == pre.data[key]
    IN  /\ Live(pre, key, clock)
        /\ \/ req.name \in ListCmds /\ val.t \in {"bytes", "int"}
           \/ req.name \in {"GET", "INCR", "DECR"} /\ val.t = "list"

\* C3: a list command on a key that holds Bytes or a Counter, and GET, INCR or
\* DECR on a key that holds a List, replies WRONGTYPE and leaves the keyspace
\* and the expiration table as they were when the command started.
C3_WrongTypeNoChange ==
    [][\A p \in Conns :
          (Completes(p) /\ WrongTypeCase(DoneReq(p), Pre(p), now))
              => /\ DoneReply(p) = RErr(ErrWrongType)
                 /\ data' = Pre(p).data
                 /\ ttl' = Pre(p).ttl]_vars

\* GET was answered WRONGTYPE for a volatile key that holds a list.
C3_Witness ==
    /\ Replied(1, "GET", RErr(ErrWrongType))
    /\ data[KeyK].t = "list"
    /\ ttl[KeyK] # NoExp

\* The connection's previous request was SET key v, and the one answered now
\* is GET key.
GetFollowsSet(p) ==
    /\ Completes(p)
    /\ DoneReq(p).name = "GET"
    /\ outq[p] # <<>>
    /\ outq[p][Len(outq[p])].req.name = "SET"
    /\ outq[p][Len(outq[p])].req.args[1] = DoneReq(p).args[1]

\* SET key v stores Bytes v whatever the key held and replies OK.
SetStores(p) ==
    (Completes(p) /\ DoneReq(p).name = "SET")
        => /\ DoneReply(p) = RSimple("OK")
           /\ data' = [data EXCEPT ![DoneReq(p).args[1]] = Bytes(DoneReq(p).args[2])]

\* C5 as stated: after SET k v, the next GET k returns v, whatever k held
\* before the SET.
C5_SetThenGet ==
    [][\A p \in Conns :
          /\ SetStores(p)
          /\ GetFollowsSet(p)
                 => DoneReply(p) = RBulk(outq[p][Len(outq[p])].req.args[2])]_vars

\* C5, amended: after SET k v, the next GET k returns v whatever k held before
\* the SET, provided k has no expiration record or the deadline of its record
\* has not been reached when the GET checks it.
C5_SetThenGetLive ==
    [][\A p \in Conns :
          /\ SetStores(p)
          /\ (GetFollowsSet(p) /\ Live(Pre(p), DoneReq(p).args[1], now))
                 => DoneReply(p) = RBulk(outq[p][Len(outq[p])].req.args[2])]_vars

\* SET k a has been answered and the GET that follows it has found the
\* expiration record of k, whose deadline is still ahead.
C5_Witness ==
    /\ pc[1] = "get_valid"
    /\ cur[1].req = Req("GET", <<KeyK>>)
    /\ Replied(1, "SET", RSimple("OK"))
    /\ cur[1].val = Bytes(ElA)
    /\ cur[1].pre.data[KeyK] = Bytes(ElA)
    /\ now < ttl[KeyK].expiryTime

\* C6: a GET of an existing key whose deadline passed before the GET started
\* replies null and leaves the key absent from the keyspace.
C6_LazyEviction ==
    [][\A p \in Conns :
          LET key == DoneReq(p).args[1]
              pre == Pre(p)
          IN  (/\ Completes(p)
               /\ DoneReq(p).name = "GET"
               /\ pre.data[key] # Absent
               /\ pre.ttl[key] # NoExp
               /\ pre.now > pre.ttl[key].expiryTime)
                  => /\ DoneReply(p) = RNull
                     /\ data'[key] = Absent]_vars

\* A GET has found the deadline of an existing key passed and is about to
\* delete the key and reply null.
C6_Witness ==
    /\ pc[1] = "get_del"
    /\ data[KeyK] # Absent
    /\ cur[1].pre.ttl[KeyK] # NoExp
    /\ cur[1].pre.now > cur[1].pre.ttl[KeyK].expiryTime

\* C7 as stated: INCR or DECR on a volatile key whose deadline has passed
\* installs a Counter with value delta and returns delta, as on an absent key.
C7_IncrOnExpired ==
    [][\A p \in Conns :
          LET key == DoneReq(p).args[1]
              pre == Pre(p)
          IN  (/\ Completes(p)
               /\ DoneReq(p).name \in {"INCR", "DECR"}
               /\ Expired(pre.data, pre.ttl, key, pre.now))
                  => /\ DoneReply(p) = RInt(Delta(DoneReq(p)))
                     /\ data'[key] = Counter(Delta(DoneReq(p)))]_vars

\* The keys named by a DEL that were present when it started.
Present(pre, keys) == {keys[i] : i \in 1..Len(keys)} \cap {k \in Keys : pre.data[k] # Absent}

\* C10 as stated: DEL replies the number of distinct named keys that were
\* present, leaves none of the named keys in the keyspace or in the expiration
\* table, and leaves the other keys untouched.
C10_DelRemoves ==
    [][\A p \in Conns :
          LET keys == DoneReq(p).args
              named == {keys[i] : i \in 1..Len(keys)}
          IN  (Completes(p) /\ DoneReq(p).name = "DEL")
                  => /\ DoneReply(p) = RInt(Cardinality(Present(Pre(p), keys)))
                     /\ \A k \in named : data'[k] = Absent /\ ttl'[k] = NoExp
                     /\ \A k \in Keys \ named : data'[k] = data[k] /\ ttl'[k] = ttl[k]]_vars

\* ======================================================================
\* One client, which waits for each reply: EXPIRE and EXPIREAT on key k with
\* and without options, SET and GET of k, and the clock.
\* ======================================================================
Options == {OptNX, OptXX, OptGT, OptLT}

ReqsExpire ==
    {Req("SET", <<KeyK, ElA>>), Req("GET", <<KeyK>>),
     Req("EXPIRE", <<KeyK, Num(0 - 1)>>), Req("EXPIRE", <<KeyK, Num(0)>>),
     Req("EXPIRE", <<KeyK, ElA>>), Req("EXPIRE", <<KeyK, Num(1), ElA>>),
     Req("expire", <<KeyK, Num(1)>>)}
    \cup {Req(name, <<KeyK, Num(t)>>) : name \in {"EXPIRE", "EXPIREAT"}, t \in 1..2}
    \cup {Req(name, <<KeyK, Num(t), o>>) :
              name \in {"EXPIRE", "EXPIREAT"}, t \in 1..2, o \in Options}

ClientExpire == \E r \in ReqsExpire : Call(1, r)

NextExpire ==
    \/ ClientExpire
    \/ Tick
    \/ \E p \in Conns :
        \/ HandleSet(p)
        \/ HandleGet(p)
        \/ GetIsVolatile(p)
        \/ GetIsValid(p)
        \/ GetDel(p)
        \/ HandleExpire(p)
        \/ ExpireGetDuration(p)
        \/ ExpireApply(p)

SpecExpire == InitStore /\ [][NextExpire]_vars

\* The duration of the record an EXPIRE or EXPIREAT with time t proposes when
\* it starts at `clock`, and the deadline of the record when it is written at
\* `clock`.
ProspectiveTtl(req, t, clock) ==
    IF req.name = "EXPIRE" THEN t * Second ELSE t * Second - clock
ProspectiveDeadline(req, t, clock) ==
    IF req.name = "EXPIRE" THEN clock + t * Second ELSE t * Second

\* The table of options: whether the record is to be installed over `rec`.
Installs(req, dur, rec) ==
    IF Len(req.args) = 2 THEN TRUE
    ELSE IF req.args[3] = OptNX THEN rec = NoExp
    ELSE IF req.args[3] = OptXX THEN rec # NoExp
    ELSE IF req.args[3] = OptGT THEN rec # NoExp /\ dur > rec.durationSet
    ELSE rec # NoExp /\ dur < rec.durationSet

\* An EXPIRE or EXPIREAT with a valid option or none, whose deadline is ahead
\* when it starts.
FutureExpire(req, pre) ==
    /\ req.name \in {"EXPIRE", "EXPIREAT"}
    /\ ParseInt(req.args[2]).ok
    /\ Len(req.args) = 2 \/ (Len(req.args) = 3 /\ req.args[3] \in Options)
    /\ ProspectiveDeadline(req, ParseInt(req.args[2]).n, pre.now) > pre.now

\* C8: an EXPIRE or EXPIREAT with a future deadline, run without interference,
\* installs its record always (no option), iff the key is not volatile (NX),
\* iff it is volatile (XX), iff it is volatile and the new set_ttl is greater
\* (GT) or less (LT) than the stored one; it replies 1 iff it installed the
\* record, and otherwise leaves the expiration table unchanged.
C8_ExpireOptions ==
    [][\A p \in Conns :
          LET req == DoneReq(p)
              pre == Pre(p)
              key == req.args[1]
              t == ParseInt(req.args[2]).n
              dur == ProspectiveTtl(req, t, pre.now)
              rec == ExpirationTime(ProspectiveDeadline(req, t, now), dur)
          IN  (Completes(p) /\ FutureExpire(req, pre))
                  => IF Installs(req, dur, pre.ttl[key])
                     THEN /\ DoneReply(p) = RInt(1)
                          /\ ttl' = [pre.ttl EXCEPT ![key] = rec]
                     ELSE /\ DoneReply(p) = RInt(0)
                          /\ ttl' = pre.ttl]_vars

\* EXPIRE k 2 GT replied 1 and the record of k carries the two seconds; an
\* EXPIRE ... GT with an equal duration is refused.
C8_Witness ==
    /\ outq[1] # <<>>
    /\ outq[1][1].req = Req("EXPIRE", <<KeyK, Num(2), OptGT>>)
    /\ outq[1][1].reply = RInt(1)
    /\ ttl[KeyK] # NoExp
    /\ ttl[KeyK].durationSet = 2 * Second

\* An EXPIRE whose seconds are zero or negative, or an EXPIREAT whose
\* deadline lies before the clock when it starts.
PastExpire(req, pre) ==
    /\ req.name \in {"EXPIRE", "EXPIREAT"}
    /\ ParseInt(req.args[2]).ok
    /\ IF req.name = "EXPIRE" THEN ParseInt(req.args[2]).n <= 0
       ELSE UnixTime(ParseInt(req.args[2]).n) < pre.now

\* C11: an EXPIRE with non-positive seconds (zero included) or an EXPIREAT
\* with a past deadline removes the expiration record of the key and the key
\* itself, and replies 1 if the key was in the keyspace and 0 otherwise.
C11_PastExpireRemovesKey ==
    [][\A p \in Conns :
          LET req == DoneReq(p)
              pre == Pre(p)
              key == req.args[1]
          IN  (Completes(p) /\ PastExpire(req, pre))
                  => /\ ttl'[key] = NoExp
                     /\ data'[key] = Absent
                     /\ DoneReply(p) =
                            RInt(IF pre.data[key] # Absent THEN 1 ELSE 0)]_vars

\* ======================================================================
\* One client, which waits for each reply: TTL of key k among SET, DEL and
\* EXPIRE of k, and the clock, which ticks twice a second.
\* ======================================================================
ReqsTTL ==
    {Req("SET", <<KeyK, ElA>>), Req("DEL", <<KeyK>>), Req("TTL", <<KeyK>>)}
    \cup {Req("EXPIRE", <<KeyK, Num(t)>>) : t \in 1..2}

ClientTTL == \E r \in ReqsTTL : Call(1, r)

NextTTL ==
    \/ ClientTTL
    \/ Tick
    \/ \E p \in Conns :
        \/ HandleSet(p)
        \/ HandleDel(p)
        \/ HandleExpire(p)
        \/ HandleTTL(p)
        \/ TTLGet(p)
        \/ TTLIsVolatile(p)
        \/ TTLIsValid(p)
        \/ TTLDel(p)

SpecTTL == InitStore /\ [][NextTTL]_vars

\* The quotient rounded up, of a positive dividend.
CeilDiv(a, b) == (a + b - 1) \div b

\* The number a TTL replied.
TTLNumber(rep) == rep.n

\* C12: TTL k replies -2 whenever k is absent from the keyspace, with or
\* without a record in the expiration table; -1 when k is in the keyspace
\* with no record or with a record already expired; a positive number only
\* when k is in the keyspace with a record not yet expired.
C12_TTLClassifies ==
    [][\A p \in Conns :
          LET req == DoneReq(p)
              pre == Pre(p)
              key == req.args[1]
              rec == pre.ttl[key]
              rep == DoneReply(p)
          IN  (Completes(p) /\ req.name = "TTL")
                  => /\ pre.data[key] = Absent => rep = RInt(0 - 2)
                     /\ (pre.data[key] # Absent /\ rec = NoExp)
                            => rep = RInt(0 - 1)
                     /\ (pre.data[key] # Absent /\ rec # NoExp
                            /\ ~(pre.now < rec.expiryTime))
                            => rep = RInt(0 - 1)
                     /\ (rep.t = "int" /\ TTLNumber(rep) > 0)
                            => /\ pre.data[key] # Absent
                               /\ rec # NoExp
                               /\ pre.now < rec.expiryTime]_vars

\* C13: for a key of the keyspace whose record has not expired, TTL replies
\* the time to the deadline in seconds rounded up: the seconds of an EXPIRE
\* just made, and never 0.
C13_TTLRoundsUp ==
    [][\A p \in Conns :
          LET req == DoneReq(p)
              key == req.args[1]
          IN  (/\ Completes(p) /\ pc[p] = "idle" /\ req.name = "TTL"
               /\ data[key] # Absent
               /\ ttl[key] # NoExp
               /\ now < ttl[key].expiryTime)
                  => DoneReply(p) =
                         RInt(CeilDiv(ttl[key].expiryTime - now, Second))]_vars

\* ======================================================================
\* One client, which waits for each reply, works on the list at key k: pushes
\* of one and of two elements at either end, pops with and without a count,
\* LRANGE over every pair of indexes around the list, LLEN; SET and DEL of k,
\* EXPIRE of k and the clock.  The client keeps the list within MaxElems.
\* ======================================================================
Indexes == (0 - MaxElems - 1)..(MaxElems + 1)

ReqsList ==
    {Req(name, <<KeyK>> \o elems) :
         name \in {"LPUSH", "RPUSH"}, elems \in {<<ElA>>, <<ElB>>, <<ElA, ElB>>}}
    \cup {Req(name, <<KeyK>>) : name \in {"LPOP", "RPOP", "LLEN", "DEL"}}
    \cup {Req(name, <<KeyK, Num(c)>>) : name \in {"LPOP", "RPOP"}, c \in 1..2}
    \cup {Req("LRANGE", <<KeyK, Num(s), Num(e)>>) : s \in Indexes, e \in Indexes}
    \cup {Req("SET", <<KeyK, ElA>>), Req("EXPIRE", <<KeyK, Num(1)>>)}

\* The list the client believes to be at k has room for the push.
HasRoom(req) ==
    (req.name \in {"LPUSH", "RPUSH"} /\ data[KeyK].t = "list")
        => Len(data[KeyK].l) + Len(req.args) - 1 <= MaxElems

\* The client has read the reply to its last request and sends the next.
Ask(p, req) ==
    /\ pc[p] = "idle"
    /\ inq[p] = <<>>
    /\ inq' = [inq EXCEPT ![p] = <<req>>]
    /\ outq' = [outq EXCEPT ![p] = <<>>]
    /\ UNCHANGED <<data, ttl, now, smu, sent, pc, cur>>

ClientList == \E r \in ReqsList : HasRoom(r) /\ Ask(1, r)

NextList ==
    \/ ClientList
    \/ Tick
    \/ \E p \in Conns :
        \/ HandleSet(p)
        \/ HandleDel(p)
        \/ HandleExpire(p)
        \/ HandleLPush(p)
        \/ HandleRPush(p)
        \/ HandleLPop(p)
        \/ HandleRPop(p)
        \/ HandleLRange(p)
        \/ HandleLLen(p)

SpecList == InitStore /\ [][NextList]_vars

\* What a list command finds at its key: the value, unless the key has
\* expired; and the list it works on, empty when it finds no value.
Found(key) == Lookup(data, ttl, key, now)
FoundList(key) == IF Found(key).t = "list" THEN Found(key).l ELSE <<>>

\* Connection p completes a request named `name` on a key that is absent or
\* holds a list.
ListOp(p, name) ==
    /\ Completes(p)
    /\ DoneReq(p).name = name
    /\ Found(DoneReq(p).args[1]).t \in {"none", "list"}

\* C14: LPUSH k e1..en on a key that is absent or holds the list L replies
\* len(L) + n and leaves at k the list en, .., e1 followed by L.
C14_LPush ==
    [][\A p \in Conns :
          LET key == DoneReq(p).args[1]
              elems == Tail(DoneReq(p).args)
              n == Len(elems)
              L == FoundList(key)
          IN  ListOp(p, "LPUSH")
                  => /\ DoneReply(p) = RInt(Len(L) + n)
                     /\ data'[key].t = "list"
                     /\ Len(data'[key].l) = Len(L) + n
                     /\ \A i \in 1..n : data'[key].l[i] = elems[n + 1 - i]
                     /\ \A j \in 1..Len(L) : data'[key].l[n + j] = L[j]]_vars

\* LPUSH k a b onto the list [a] replied 3 and left [b, a, a].
C14_Witness ==
    /\ Replied(1, "LPUSH", RInt(3))
    /\ outq[1][1].req.args = <<KeyK, ElA, ElB>>
    /\ data[KeyK] = List(<<ElB, ElA, ElA>>)

\* C15: RPUSH k e1..en on a key that is absent or holds the list L replies
\* len(L) + n and leaves at k the list L followed by e1, .., en.
C15_RPush ==
    [][\A p \in Conns :
          LET key == DoneReq(p).args[1]
              elems == Tail(DoneReq(p).args)
              n == Len(elems)
              L == FoundList(key)
          IN  ListOp(p, "RPUSH")
                  => /\ DoneReply(p) = RInt(Len(L) + n)
                     /\ data'[key].t = "list"
                     /\ Len(data'[key].l) = Len(L) + n
                     /\ \A j \in 1..Len(L) : data'[key].l[j] = L[j]
                     /\ \A i \in 1..n : data'[key].l[Len(L) + i] = elems[i]]_vars

\* RPUSH k a b onto the list [b] replied 3 and left [b, a, b].
C15_Witness ==
    /\ Replied(1, "RPUSH", RInt(3))
    /\ outq[1][1].req.args = <<KeyK, ElA, ElB>>
    /\ data[KeyK] = List(<<ElB, ElA, ElB>>)

\* The count of a pop: 1 when the request carries none.
PopCount(req) == IF Len(req.args) > 1 THEN ParseInt(req.args[2]).n ELSE 1

\* The elements a pop replied, as a sequence.
PoppedElems(req, rep) == IF Len(req.args) > 1 THEN rep.a ELSE <<rep.b>>

\* The reply to a pop carries elements in the shape the request asks for.
PopShape(req, rep) == rep.t = (IF Len(req.args) > 1 THEN "array" ELSE "bulk")

\* C16: LPOP k count (count >= 1) on the list L replies the first
\* min(count, len(L)) elements from head to tail and leaves the rest, or no
\* key when nothing is left; on an absent key it replies null, which is not
\* the empty array, and changes nothing.
C16_LPop ==
    [][\A p \in Conns :
          LET req == DoneReq(p)
              key == req.args[1]
              L == FoundList(key)
              c == Min(PopCount(req), Len(L))
              rep == DoneReply(p)
          IN  (ListOp(p, "LPOP") /\ PopCount(req) >= 1)
                  => IF Found(key) = Absent
                     THEN /\ rep = RNull
                          /\ rep # RArray(<<>>)
                          /\ data[key] = Absent => (data' = data /\ ttl' = ttl)
                     ELSE /\ PopShape(req, rep)
                          /\ Len(PoppedElems(req, rep)) = c
                          /\ \A i \in 1..c : PoppedElems(req, rep)[i] = L[i]
                          /\ IF c = Len(L) THEN data'[key] = Absent
                             ELSE /\ data'[key].t = "list"
                                  /\ Len(data'[key].l) = Len(L) - c
                                  /\ \A j \in 1..(Len(L) - c) :
                                         data'[key].l[j] = L[c + j]]_vars

\* LPOP k 2 on the list [a, b, a] replied [a, b] and left [a].
C16_Witness ==
    /\ Replied(1, "LPOP", RArray(<<ElA, ElB>>))
    /\ data[KeyK] = List(<<ElA>>)

\* C17: RPOP k count (count >= 1) on the list L replies the last
\* c = min(count, len(L)) elements in the order they had in the list and
\* leaves the first len(L) - c, or no key when nothing is left; on an absent
\* key it replies null and changes nothing.
C17_RPop ==
    [][\A p \in Conns :
          LET req == DoneReq(p)
              key == req.args[1]
              L == FoundList(key)
              c == Min(PopCount(req), Len(L))
              rep == DoneReply(p)
          IN  (ListOp(p, "RPOP") /\ PopCount(req) >= 1)
                  => IF Found(key) = Absent
                     THEN /\ rep = RNull
                          /\ data[key] = Absent => (data' = data /\ ttl' = ttl)
                     ELSE /\ PopShape(req, rep)
                          /\ Len(PoppedElems(req, rep)) = c
                          /\ \A i \in 1..c :
                                 PoppedElems(req, rep)[i] = L[Len(L) - c + i]
                          /\ IF c = Len(L) THEN data'[key] = Absent
                             ELSE /\ data'[key].t = "list"
                                  /\ Len(data'[key].l) = Len(L) - c
                                  /\ \A j \in 1..(Len(L) - c) :
                                         data'[key].l[j] = L[j]]_vars

\* RPOP k 2 on the list [b, a, b] replied [a, b] and left [b].
C17_Witness ==
    /\ Replied(1, "RPOP", RArray(<<ElA, ElB>>))
    /\ data[KeyK] = List(<<ElB>>)

\* An index of LRANGE counted from the head: a negative one counts from the
\* tail of a list of n elements.
FromHead(i, n) == IF i < 0 THEN n + i ELSE i

C19_LLen ==
    [][\A p \in Conns :
          LET key == DoneReq(p).args[1]
          IN  ListOp(p, "LLEN")
                  => /\ DoneReply(p) = RInt(Len(LRange(FoundList(key), 0, 0 - 1)))
                     /\ DoneReply(p) = RInt(0) <=> Found(key) = Absent]_vars

\* LLEN k replied 3 for a list of three elements.
C19_Witness ==
    /\ Replied(1, "LLEN", RInt(3))
    /\ data[KeyK].t = "list"
    /\ Len(data[KeyK].l) = 3

\* C35: Set(k, v) stores v and leaves the expiration table as it was, for
\* every key, k included: a record installed on k before the Set stands, with
\* its deadline, over the new value.
C35_SetKeepsExpiration ==
    [][\A p \in Conns :
          LET req == DoneReq(p)
              key == req.args[1]
          IN  (Completes(p) /\ req.name = "SET")
                  => /\ ttl' = ttl
                     /\ data'[key] = Bytes(req.args[2])
                     /\ ttl[key] # NoExp =>
                            (Expired(data', ttl', key, now)
                                 <=> ~(now < ttl[key].expiryTime))]_vars

\* SET k has been answered on a key that has an expiration record.
C35_Witness ==
    /\ Replied(1, "SET", RSimple("OK"))
    /\ outq[1][Len(outq[1])].req.args[1] = KeyK
    /\ ttl[KeyK] # NoExp
    /\ data[KeyK] = Bytes(outq[1][Len(outq[1])].req.args[2])

\* ======================================================================
\* Several clients, each waiting for its own replies, issue EXPIRE on key k
\* concurrently, with GT, with LT and without option.
\* ======================================================================
ReqsRace ==
    {Req("EXPIRE", <<KeyK, Num(t)>>) : t \in 1..MaxTtl}
    \cup {Req("EXPIRE", <<KeyK, Num(t), o>>) : t \in 1..MaxTtl, o \in {OptGT, OptLT}}

ClientRace == \E p \in Conns : \E r \in ReqsRace : Call(p, r)

NextRace ==
    \/ ClientRace
    \/ \E p \in Conns :
        \/ HandleExpire(p)
        \/ ExpireGetDuration(p)
        \/ ExpireApply(p)

SpecRace == InitStore /\ [][NextRace]_vars

\* C9 as stated: among concurrent EXPIREs on one key, an EXPIRE ... GT that
\* replies 1 leaves a set_ttl strictly greater than the one stored immediately
\* before its write (LT: strictly less), and one that replies 0 writes nothing.
C9_AtomicCompareAndSet ==
    [][\A p \in Conns :
          LET req == DoneReq(p)
              key == req.args[1]
          IN  (/\ Completes(p)
               /\ req.name = "EXPIRE"
               /\ Len(req.args) = 3
               /\ req.args[3] \in {OptGT, OptLT})
                  => /\ DoneReply(p) = RInt(1)
                         => /\ ttl[key] # NoExp
                            /\ ttl'[key] # NoExp
                            /\ IF req.args[3] = OptGT
                               THEN ttl'[key].durationSet > ttl[key].durationSet
                               ELSE ttl'[key].durationSet < ttl[key].durationSet
                     /\ DoneReply(p) = RInt(0) => ttl' = ttl]_vars

\* ======================================================================
\* The server with a client on every connection, each waiting for its own
\* replies, all working on key k; the clock; the sweeper.
\* ======================================================================
Reqs ==
    {Req("SET", <<KeyK, ElA>>), Req("DEL", <<KeyK>>), Req("GET", <<KeyK>>),
     Req("INCR", <<KeyK>>), Req("DECR", <<KeyK>>),
     Req("LPUSH", <<KeyK, ElA>>), Req("RPUSH", <<KeyK, ElA, ElA>>),
     Req("LPUSH", <<KeyK>>),
     Req("LPOP", <<KeyK>>), Req("RPOP", <<KeyK, Num(2)>>),
     Req("EXPIRE", <<KeyK, Num(1)>>)}

\* Two clients; neither reads its replies.
Talkers == {1, 2}

Client ==
    \E p \in Talkers : \E r \in Reqs : InRoom(r) /\ Call(p, Unread(r))

Init == InitStore

Next ==
    \/ Client
    \/ Tick
    \/ \E k \in Keys : Sweep(k)
    \/ \E p \in Conns :
        \/ ConnError(p)
        \/ HandleSet(p)
        \/ HandleDel(p)
        \/ HandleIncr(p)
        \/ IncrRead(p)
        \/ IncrStore(p)
        \/ HandleGet(p)
        \/ GetIsVolatile(p)
        \/ GetIsValid(p)
        \/ GetDel(p)
        \/ HandleExpire(p)
        \/ HandleLPush(p)
        \/ HandleRPush(p)
        \/ HandleLPop(p)
        \/ HandleRPop(p)

Spec == Init /\ [][Next]_vars

\* Connection p answers a pop of a live list that asks for at least as many
\* elements as the list holds.
PopsLast(p) ==
    LET req == DoneReq(p)
        val == Lookup(data, ttl, req.args[1], now)
        count == IF Len(req.args) > 1 THEN ParseInt(req.args[2]).n ELSE 1
    IN  /\ Completes(p)
        /\ req.name \in {"LPOP", "RPOP"}
        /\ val.t = "list"
        /\ count >= Len(val.l)

\* C2: every key of the keyspace that holds a List holds a list of at least
\* one element, and a pop that removes the last element removes the key.
C2_NoEmptyList ==
    /\ [](\A k \in Keys : data[k].t = "list" => Len(data[k].l) >= 1)
    /\ [][\A p \in Conns : PopsLast(p) => data'[DoneReq(p).args[1]] = Absent]_vars

\* RPOP k 2 is about to be served while k holds a live list of two elements.
C2_Witness ==
    \E p \in Conns :
        /\ Dispatches(p, {"RPOP"})
        /\ NextReq(p).args = <<KeyK, Num(2)>>
        /\ data[KeyK] = List(<<ElA, ElA>>)
        /\ ~Expired(data, ttl, KeyK, now)
        /\ ttl[KeyK] # NoExp

\* ======================================================================
\* Pipelining: the client of connection 1 writes its requests without waiting
\* for replies, RPUSHes on key k among them; the clients of the other
\* connections work on key j meanwhile and only read k.
\* ======================================================================
ReqsPipe ==
    {Req("RPUSH", <<KeyK, ElA>>), Req("RPUSH", <<KeyK, ElB>>),
     Req("SET", <<KeyJ, ElA>>), Req("GET", <<KeyJ>>)}

ReqsNoise ==
    {Req("SET", <<KeyJ, ElB>>), Req("DEL", <<KeyJ>>), Req("GET", <<KeyJ>>),
     Req("LLEN", <<KeyK>>)}

ClientPipe == \E r \in ReqsPipe : SendTraced(1, r)

ClientNoise == \E p \in Conns \ {1} : \E r \in ReqsNoise : Call(p, Unread(r))

NextPipe ==
    \/ ClientPipe
    \/ ClientNoise
    \/ \E p \in Conns :
        \/ HandleSet(p)
        \/ HandleDel(p)
        \/ HandleGet(p)
        \/ GetIsVolatile(p)
        \/ HandleRPush(p)
        \/ HandleLLen(p)

SpecPipe == InitStore /\ [][NextPipe]_vars

\* The elements of the RPUSHes answered in `log`, in the order of the log.
RECURSIVE PushedElems(_)
PushedElems(log) ==
    IF log = <<>> THEN <<>>
    ELSE (IF Head(log).req.name = "RPUSH" THEN Tail(Head(log).req.args) ELSE <<>>)
             \o PushedElems(Tail(log))

\* C4: on connection 1 the i-th reply written is the reply to the i-th request
\* sent, the request in hand is the next one and those still unread follow in
\* the order sent; the list of k holds the elements of the answered RPUSHes in
\* the order the requests were sent, whatever the other connections did.
C4_PipelineOrder ==
    LET done == Len(outq[1])
        busy == IF pc[1] = "idle" THEN 0 ELSE 1
    IN  /\ \A i \in 1..done : outq[1][i].req.id = i
        /\ pc[1] # "idle" => cur[1].req.id = done + 1
        /\ \A i \in 1..Len(inq[1]) : inq[1][i].id = done + busy + i
        /\ data[KeyK] = IF PushedElems(outq[1]) = <<>> THEN Absent
                        ELSE List(PushedElems(outq[1]))

\* Two pipelined RPUSHes were both in the queue while another connection set
\* key j; both have been answered, b first.
C4_Witness ==
    /\ Len(outq[1]) = 2
    /\ outq[1][1].req.args = <<KeyK, ElB>>
    /\ outq[1][2].req.args = <<KeyK, ElA>>
    /\ outq[1][2].reply = RInt(2)
    /\ data[KeyJ] = Bytes(ElB)

\* ======================================================================
\* Concurrent increments: every connection sends INCR k, any number of times
\* and without waiting; once every INCR sent has been answered, a client may
\* send GET k, and from then on no further INCR is sent.
\* ======================================================================
Entries(name) ==
    {e \in UNION {{outq[p][i] : i \in 1..Len(outq[p])} : p \in Conns} :
        e.req.name = name}

Places(name) ==
    {pi \in Conns \X (1..MaxReqs + 1) :
        pi[2] <= Len(outq[pi[1]]) /\ outq[pi[1]][pi[2]].req.name = name}

GetWasSent ==
    \E p \in Conns :
        \/ \E i \in 1..Len(inq[p]) : inq[p][i].name = "GET"
        \/ \E i \in 1..Len(outq[p]) : outq[p][i].req.name = "GET"
        \/ (cur[p] # NoCur /\ cur[p].req.name = "GET")

AllAnswered == \A p \in Conns : inq[p] = <<>> /\ pc[p] = "idle"

ClientIncr(p) ==
    /\ ~GetWasSent
    /\ SendTraced(p, Req("INCR", <<KeyK>>))

ClientGetAfterIncrs(p) ==
    /\ AllAnswered
    /\ Places("INCR") # {}
    /\ ~GetWasSent
    /\ SendTraced(p, Req("GET", <<KeyK>>))

InitIncr == EmptyStore /\ NoTraffic /\ now = 0

NextIncr ==
    \E p \in Conns :
        \/ ClientIncr(p)
        \/ ClientGetAfterIncrs(p)
        \/ HandleIncr(p)
        \/ IncrRead(p)
        \/ IncrStore(p)
        \/ HandleGet(p)
        \/ GetIsVolatile(p)

SpecIncr == InitIncr /\ [][NextIncr]_vars

\* C1: K concurrent Incr(k) on an absent key return the K distinct values
\* 1..K, and a Get(k) issued after all of them returns the decimal text of K.
C1_ConcurrentIncr ==
    LET done == Places("INCR")
        K == Cardinality(done)
    IN  /\ \A x \in done : outq[x[1]][x[2]].reply.t = "int"
        /\ {outq[x[1]][x[2]].reply.n : x \in done} = 1..K
        /\ \A e \in Entries("GET") : e.reply = RBulk(FormatInt(K))

\* Every connection has had an INCR answered and the GET that followed them
\* all has been answered.
C1_Witness ==
    /\ \A p \in Conns : \E i \in 1..Len(outq[p]) : outq[p][i].req.name = "INCR"
    /\ Entries("GET") # {}


\* ======================================================================
\* Concurrent list operations on key k: connection 1 sends LPUSH k a, RPOP k
\* and LLEN k, connection 2 sends RPUSH k b and LPOP k 2, each any number of
\* times and without waiting for replies.
\* ======================================================================
ReqsPushPop(p) ==
    IF p = 1
    THEN {Req("LPUSH", <<KeyK, ElA>>), Req("RPOP", <<KeyK>>), Req("LLEN", <<KeyK>>)}
    ELSE {Req("RPUSH", <<KeyK, ElB>>), Req("LPOP", <<KeyK, Num(2)>>)}

ClientPushPop == \E p \in Talkers : \E r \in ReqsPushPop(p) : SendTraced(p, r)

NextPushPop ==
    \/ ClientPushPop
    \/ \E p \in Conns :
        \/ HandleLPush(p)
        \/ HandleRPush(p)
        \/ HandleLPop(p)
        \/ HandleRPop(p)
        \/ HandleLLen(p)

SpecPushPop == InitStore /\ [][NextPushPop]_vars

\* The replies written so far on the connections 1..n, one after the other.
RECURSIVE Log(_)
Log(n) == IF n = 0 THEN <<>> ELSE Log(n - 1) \o outq[n]

\* The elements an answered request pushed, and those a reply popped.
PushedIn(e) ==
    IF e.req.name \in {"LPUSH", "RPUSH"} /\ e.reply.t = "int"
    THEN Tail(e.req.args) ELSE <<>>
PoppedIn(e) ==
    IF e.req.name \notin {"LPOP", "RPOP"} THEN <<>>
    ELSE IF e.reply.t = "array" THEN e.reply.a
    ELSE IF e.reply.t = "bulk" THEN <<e.reply.b>>
    ELSE <<>>

RECURSIVE PushedOf(_)
PushedOf(log) ==
    IF log = <<>> THEN <<>> ELSE PushedIn(Head(log)) \o PushedOf(Tail(log))
RECURSIVE PoppedOf(_)
PoppedOf(log) ==
    IF log = <<>> THEN <<>> ELSE PoppedIn(Head(log)) \o PoppedOf(Tail(log))

\* How many times `el` occurs in the sequence s.
Occurs(s, el) == Cardinality({i \in 1..Len(s) : s[i] = el})

\* No pop has been answered.
NoPops ==
    \A i \in 1..Len(Log(NumConns)) :
        Log(NumConns)[i].req.name \notin {"LPOP", "RPOP"}

\* C20: in every interleaving of concurrent LPUSH, RPUSH, LPOP and RPOP on
\* one key no element is lost or duplicated: each element has been pushed as
\* many times as it has been popped or is in the list; and an LLEN that
\* follows P single-element pushes and no pop replies P.
C20_NoElementLostOrDuplicated ==
    /\ [](\A el \in {ElA, ElB} :
             Occurs(PushedOf(Log(NumConns)), el)
                 = Occurs(PoppedOf(Log(NumConns)), el)
                       + Occurs(FoundList(KeyK), el))
    /\ [][\A p \in Conns :
             (ListOp(p, "LLEN") /\ NoPops)
                 => DoneReply(p) = RInt(Len(PushedOf(Log(NumConns))))]_vars

\* Connection 2 pushed b and then popped, with one LPOP, the a that
\* connection 1 had pushed and its own b; between the pushes and the pop the
\* LLEN of connection 1 replied 2.
C20_Witness ==
    /\ Len(outq[1]) = 2
    /\ Len(outq[2]) = 2
    /\ outq[1][1].req.name = "LPUSH"
    /\ outq[1][2].req.name = "LLEN"
    /\ outq[1][2].reply = RInt(2)
    /\ outq[2][1].req.name = "RPUSH"
    /\ outq[2][2].reply = RArray(<<ElA, ElB>>)


\* ======================================================================
\* One client works on the counter at key k: it sets k to the decimal text
\* of the largest integers, of the smallest, of zero, and to a text that is
\* no number, increments, decrements and reads k, waiting for each reply;
\* all its replies are kept, up to MaxAsk requests.
\* ======================================================================
ReqsCounter ==
    {Req("SET", <<KeyK, Num(n)>>) : n \in {MinInt, 0, MaxInt - 1, MaxInt}}
    \cup {Req("SET", <<KeyK, Num(MaxInt + 1)>>), Req("SET", <<KeyK, <<>>>>)}
    \cup {Req("SET", <<KeyK, ElA>>),
          Req("INCR", <<KeyK>>), Req("DECR", <<KeyK>>), Req("GET", <<KeyK>>)}

\* The client has read the reply to its last request and sends the next,
\* numbered in the order sent.
CallTraced(p, req) ==
    /\ sent[p] < MaxAsk
    /\ pc[p] = "idle"
    /\ inq[p] = <<>>
    /\ inq' = [inq EXCEPT ![p] = <<[req EXCEPT !.id = sent[p] + 1]>>]
    /\ sent' = [sent EXCEPT ![p] = @ + 1]
    /\ UNCHANGED <<data, ttl, now, smu, outq, pc, cur>>

ClientCounter == \E r \in ReqsCounter : CallTraced(1, r)

NextCounter ==
    \/ ClientCounter
    \/ \E p \in Conns :
        \/ HandleSet(p)
        \/ HandleIncr(p)
        \/ IncrRead(p)
        \/ IncrStore(p)
        \/ HandleGet(p)
        \/ GetIsVolatile(p)

SpecCounter == InitStore /\ [][NextCounter]_vars

\* The integer a value stands for in an increment: the number of a Counter,
\* the number written in Bytes; zero for no value.
IsNumber(val) ==
    \/ val = Absent
    \/ val.t = "int"
    \/ val.t = "bytes" /\ ParseInt(val.b).ok
NumberOf(val) ==
    IF val = Absent THEN 0
    ELSE IF val.t = "int" THEN val.n
    ELSE ParseInt(val.b).n

\* Connection p completes an INCR or DECR of a key that holds a number.
IncrOfNumber(p) ==
    /\ Completes(p)
    /\ DoneReq(p).name \in {"INCR", "DECR"}
    /\ IsNumber(Pre(p).data[DoneReq(p).args[1]])

\* C21: IncrBy never wraps: when the stored integer plus delta lies outside
\* the integer range it fails with the integer-range error and leaves the
\* stored value unchanged; otherwise it returns and stores the exact sum.
C21_IncrNeverWraps ==
    [][\A p \in Conns :
          LET key == DoneReq(p).args[1]
              sum == NumberOf(Pre(p).data[key]) + Delta(DoneReq(p))
          IN  IncrOfNumber(p)
                  => IF sum < MinInt \/ sum > MaxInt
                     THEN /\ DoneReply(p) = RErr(ErrNotInt)
                          /\ data' = Pre(p).data
                     ELSE /\ DoneReply(p) = RInt(sum)
                          /\ data'[key] = Counter(sum)]_vars

\* C22: a key holding the decimal text of an integer n behaves for increments
\* like a Counter n: when the sum n + d is an integer of the range, the
\* increment replies n + d and stores the Counter n + d, whether k held the
\* text or the Counter; and GET of a Counter replies its decimal text, which
\* reads back as the same number.
C22_TextActsAsCounter ==
    [][\A p \in Conns :
          LET req == DoneReq(p)
              key == req.args[1]
              val == Pre(p).data[key]
              sum == NumberOf(val) + Delta(req)
              rep == DoneReply(p)
          IN  /\ (IncrOfNumber(p) /\ val # Absent /\ sum \in MinInt..MaxInt)
                     => /\ rep = RInt(sum)
                        /\ data'[key] = Counter(sum)
              /\ (Completes(p) /\ req.name = "GET" /\ val.t = "int")
                     => /\ rep = RBulk(FormatInt(val.n))
                        /\ ParseInt(rep.b) = [ok |-> TRUE, n |-> val.n]]_vars

\* SET k with the text of the largest integer but one, INCR k replied the
\* largest integer, and GET k its decimal text.
C22_Witness ==
    /\ Len(outq[1]) = 3
    /\ outq[1][1].req = [Req("SET", <<KeyK, Num(MaxInt - 1)>>) EXCEPT !.id = 1]
    /\ outq[1][2].req.name = "INCR"
    /\ outq[1][2].reply = RInt(MaxInt)
    /\ outq[1][3].req.name = "GET"
    /\ outq[1][3].reply = RBulk(Num(MaxInt))

\* C34: IncrBy on a key holding Bytes that are not the decimal text of an
\* integer of the range fails with the not-an-integer error and leaves the
\* stored Bytes, the rest of the keyspace and the expiration table as they
\* were.
C34_UnparseableBytes ==
    [][\A p \in Conns :
          LET req == DoneReq(p)
              val == Pre(p).data[req.args[1]]
          IN  (/\ Completes(p)
               /\ req.name \in {"INCR", "DECR"}
               /\ val.t = "bytes"
               /\ ~ParseInt(val.b).ok)
                  => /\ DoneReply(p) = RErr(ErrNotInt)
                     /\ data' = Pre(p).data
                     /\ ttl' = Pre(p).ttl]_vars

\* SET k with the text of the integer just above the range, then INCR k
\* replied the error and k still holds that text.
C34_Witness ==
    /\ Len(outq[1]) = 2
    /\ outq[1][1].req = [Req("SET", <<KeyK, Num(MaxInt + 1)>>) EXCEPT !.id = 1]
    /\ outq[1][2].req.name = "INCR"
    /\ outq[1][2].reply = RErr(ErrNotInt)
    /\ data[KeyK] = Bytes(Num(MaxInt + 1))


\* ======================================================================
\* One client, which waits for each reply, sends requests the dispatcher must
\* refuse among requests it serves: an unknown command, commands with too few
\* and too many elements, and SET, GET, DEL, LPUSH and EXPIRE of key k.
\* ======================================================================
ReqsDispatch ==
    {Req("FOO", <<KeyK>>), Req("FOO", <<>>), Req("get", <<>>),
     Req("GET", <<KeyK, KeyJ>>), Req("SET", <<KeyK>>), Req("SET", <<KeyK, ElA, ElB>>),
     Req("DEL", <<>>), Req("LPUSH", <<KeyK>>), Req("EXPIRE", <<KeyK>>),
     Req("PING", <<KeyK>>),
     Req("SET", <<KeyK, ElA>>), Req("GET", <<KeyK>>), Req("DEL", <<KeyK, KeyJ>>),
     Req("LPUSH", <<KeyK, ElA>>), Req("EXPIRE", <<KeyK, Num(1)>>)}

ClientDispatch == \E r \in ReqsDispatch : HasRoom(r) /\ Call(1, r)

NextDispatch ==
    \/ ClientDispatch
    \/ Tick
    \/ \E p \in Conns :
        \/ ConnError(p)
        \/ HandleSet(p)
        \/ HandleGet(p)
        \/ GetIsVolatile(p)
        \/ GetIsValid(p)
        \/ GetDel(p)
        \/ HandleDel(p)
        \/ HandleLPush(p)
        \/ HandleExpire(p)

SpecDispatch == InitStore /\ [][NextDispatch]_vars

\* What the commands table asks of a request of n elements: nothing when the
\* command is not in it.
InTable(req) == ToUpper(req.name) \in CommandNames
FitsArity(req) ==
    LET want == Arity(ToUpper(req.name))
        n == Len(req.args) + 1
    IN  IF want > 0 THEN n = want ELSE n >= 0 - want

\* C25: a request whose command is not in the commands table, or whose
\* element count violates the arity of its command (positive: exactly that
\* many; negative: at least the absolute value), is answered with an error
\* that says so, changes neither keyspace nor expiration table, and the
\* connection goes on with the next request.
C25_RefusedByDispatcher ==
    [][\A p \in Conns :
          LET req == DoneReq(p)
              rep == DoneReply(p)
          IN  (Completes(p) /\ (~InTable(req) \/ ~FitsArity(req)))
                  => /\ rep.t = "err"
                     /\ rep.e[1] = IF InTable(req)
                                   THEN "ERR wrong number of arguments for"
                                   ELSE "ERR unknown command"
                     /\ data' = data
                     /\ ttl' = ttl
                     /\ pc[p] = "idle" /\ pc'[p] = "idle"
                     /\ inq'[p] = Tail(inq[p])]_vars

\* LPUSH k without elements was refused for its arity and k, set before,
\* still holds its value.
C25_Witness ==
    /\ Replied(1, "LPUSH", RErr(<<"ERR wrong number of arguments for", "LPUSH">>))
    /\ data[KeyK] = Bytes(ElA)

\* ======================================================================
\* The codec (package parser).  A byte stream is a sequence of one-character
\* strings; a stream that ends is a stream whose writer has closed it.
\* ======================================================================
CR == "\r"
LF == "\n"
NUL == "^@"
White == {" ", "\t", CR, LF}

\* parser.Value: the five variants, and the nil interface value.
SimpleString(s) == [t |-> "SimpleString", s |-> s]
Error(s) == [t |-> "Error", s |-> s]
Integer(n) == [t |-> "Integer", n |-> n]
BulkString(b) == [t |-> "BulkString", b |-> b]
NullBulk == [t |-> "BulkString", nil |-> TRUE]
Array(a) == [t |-> "Array", a |-> a]
Nil == [t |-> "nil"]

\* What a parsing function returns: a value and no error, an error, or a
\* run-time panic; and what is left of the stream.
Ok(v, rest) == [kind |-> "ok", v |-> v, rest |-> rest]
Err(rest) == [kind |-> "err", v |-> Nil, rest |-> rest]
Panic == [kind |-> "panic", v |-> Nil, rest |-> <<>>]

\* bufio.Reader.ReadString('\n'): the bytes up to and including the first LF;
\* at the end of the stream, the bytes that were left and an error (eof).
ReadString(s) ==
    IF \E i \in 1..Len(s) : s[i] = LF
    THEN LET i == CHOOSE i \in 1..Len(s) :
                      s[i] = LF /\ \A j \in 1..(i - 1) : s[j] # LF
         IN  [line |-> SubSeq(s, 1, i), rest |-> SubSeq(s, i + 1, Len(s)),
              eof |-> FALSE]
    ELSE [line |-> s, rest |-> <<>>, eof |-> TRUE]

\* strings.TrimSuffix(line, "\r\n")
TrimSuffix(line) ==
    IF Len(line) >= 2 /\ line[Len(line) - 1] = CR /\ line[Len(line)] = LF
    THEN SubSeq(line, 1, Len(line) - 2)
    ELSE line

\* strings.TrimSpace
RECURSIVE TrimLeft(_)
TrimLeft(s) == IF s # <<>> /\ Head(s) \in White THEN TrimLeft(Tail(s)) ELSE s
RECURSIVE TrimRight(_)
TrimRight(s) ==
    IF s # <<>> /\ s[Len(s)] \in White THEN TrimRight(SubSeq(s, 1, Len(s) - 1))
    ELSE s
TrimSpace(s) == TrimRight(TrimLeft(s))

\* The first token of a string that starts with no white space, and
\* strings.Fields: the tokens between runs of white space.
RECURSIVE Token(_)
Token(s) ==
    IF s = <<>> \/ Head(s) \in White THEN <<>> ELSE <<Head(s)>> \o Token(Tail(s))
RECURSIVE Fields(_)
Fields(s) ==
    LET t == TrimLeft(s)
    IN  IF t = <<>> THEN <<>>
        ELSE <<Token(t)>> \o Fields(SubSeq(t, Len(Token(t)) + 1, Len(t)))

\* strconv.Atoi
Atoi(s) == ParseInt(s)

\* handleSimpleString, handleError: the error of ReadString is dropped.
handleSimpleString(s) ==
    Ok(SimpleString(TrimSuffix(ReadString(s).line)), ReadString(s).rest)
handleError(s) ==
    Ok(Error(TrimSuffix(ReadString(s).line)), ReadString(s).rest)

\* handleInteger
handleInteger(s) ==
    LET l == ReadString(s)
        trimmed == TrimSuffix(l.line)
        digits == IF Len(trimmed) > 0 /\ trimmed[1] = "+" THEN Tail(trimmed)
                  ELSE trimmed
        num64 == ParseInt(digits)
    IN  IF num64.ok THEN Ok(Integer(num64.n), l.rest) ELSE Err(l.rest)

\* handleBulkString.  A length below -1 panics: make([]byte, length+2) for a
\* negative size, buf[:length] for -2.
handleBulkString(s) ==
    LET l == ReadString(s)
        length == Atoi(TrimSpace(l.line))
    IN  IF ~length.ok THEN Err(l.rest)
        ELSE IF length.n = 0 - 1 THEN Ok(Nil, l.rest)
        ELSE IF length.n < 0 - 1 THEN Panic
        ELSE IF Len(l.rest) < length.n + 2 THEN Err(<<>>)
        ELSE Ok(BulkString(SubSeq(l.rest, 1, length.n)),
                SubSeq(l.rest, length.n + 3, Len(l.rest)))

\* handleInline: only the first token is returned, as a SimpleString.
handleInline(firstByte, s) ==
    LET l == ReadString(s)
        tokens == Fields(TrimSuffix(<<firstByte>> \o l.line))
    IN  IF l.eof THEN Err(<<>>)
        ELSE IF tokens = <<>> THEN Err(l.rest)
        ELSE Ok(Array(<<SimpleString(tokens[1])>>), l.rest)

RECURSIVE handleCommand(_, _)
RECURSIVE ArrayElems(_, _, _)

\* handleArray: the loop over the elements; ReadByte's error is dropped and
\* the prefix is then the zero byte.
ArrayElems(k, s, returnValues) ==
    IF k = 0 THEN Ok(Array(returnValues), s)
    ELSE LET r == IF s = <<>> THEN handleCommand(NUL, <<>>)
                  ELSE handleCommand(Head(s), Tail(s))
         IN  IF r.kind = "ok" THEN ArrayElems(k - 1, r.rest, Append(returnValues, r.v))
             ELSE r

\* handleArray.  A negative length panics in make([]Value, length).
handleArray(s) ==
    LET l == ReadString(s)
        length == Atoi(TrimSpace(l.line))
    IN  IF ~length.ok THEN Err(l.rest)
        ELSE IF length.n < 0 THEN Panic
        ELSE ArrayElems(length.n, l.rest, <<>>)

\* handleCommand: for + - : the error of the handler is dropped and its
\* result, nil when it failed, is returned as a value.
handleCommand(prefix, s) ==
    IF prefix = "+" THEN handleSimpleString(s)
    ELSE IF prefix = "-" THEN handleError(s)
    ELSE IF prefix = ":" THEN Ok(handleInteger(s).v, handleInteger(s).rest)
    ELSE IF prefix = "$" THEN handleBulkString(s)
    ELSE IF prefix = "*" THEN handleArray(s)
    ELSE handleInline(prefix, s)

\* Deserialize
Deserialize(s) == IF s = <<>> THEN Err(<<>>) ELSE handleCommand(Head(s), Tail(s))

\* Serialize; for a value of no variant it returns no bytes (and an error).
RECURSIVE Serialize(_)
RECURSIVE SerializeAll(_)
SerializeAll(a) ==
    IF a = <<>> THEN <<>> ELSE Serialize(Head(a)) \o SerializeAll(Tail(a))
Serialize(v) ==
    IF v.t = "SimpleString" THEN <<"+">> \o v.s \o <<CR, LF>>
    ELSE IF v.t = "Error" THEN <<"-">> \o v.s \o <<CR, LF>>
    ELSE IF v.t = "Integer" THEN <<":">> \o FormatInt(v.n) \o <<CR, LF>>
    ELSE IF v = NullBulk THEN <<"$", "-", "1", CR, LF>>
    ELSE IF v.t = "BulkString"
    THEN <<"$">> \o FormatInt(Len(v.b)) \o <<CR, LF>> \o v.b \o <<CR, LF>>
    ELSE IF v.t = "Array"
    THEN <<"*">> \o FormatInt(Len(v.a)) \o <<CR, LF>> \o SerializeAll(v.a)
    ELSE <<>>


\* ======================================================================
\* A value is serialized onto connection 1 and deserialized from it.  The
\* first entry of outq[1] is the value with its bytes, the second the bytes
\* with what Deserialize made of them.
\* ======================================================================
\* The byte strings of at most MaxPayload bytes over an alphabet.
Payloads(alphabet) == UNION {[1..n -> alphabet] : n \in 0..MaxPayload}

TextBytes == {"a", " "}
AnyBytes == {"a", CR, LF}

Scalars ==
    {SimpleString(x) : x \in Payloads(TextBytes)}
    \cup {Error(x) : x \in Payloads(TextBytes)}
    \cup {Integer(n) : n \in MinInt..MaxInt}
    \cup {BulkString(x) : x \in Payloads(AnyBytes)}
    \cup {NullBulk}

Elements ==
    {Integer(1), SimpleString(<<>>), BulkString(<<>>), BulkString(<<"a">>),
     NullBulk, Array(<<>>), Array(<<NullBulk>>), Array(<<Integer(0 - 1)>>)}

Values == Scalars \cup {Array(x) : x \in Payloads(Elements)}

WriteValue ==
    /\ outq[1] = <<>>
    /\ \E v \in Values :
          outq' = [outq EXCEPT ![1] = <<[req |-> v, reply |-> Serialize(v)]>>]
    /\ UNCHANGED <<data, ttl, now, smu, inq, sent, pc, cur>>

ReadValue ==
    /\ Len(outq[1]) = 1
    /\ outq' = [outq EXCEPT ![1] =
                   Append(@, [req |-> outq[1][1].reply,
                              reply |-> Deserialize(outq[1][1].reply)])]
    /\ UNCHANGED <<data, ttl, now, smu, inq, sent, pc, cur>>

NextRoundTrip == WriteValue \/ ReadValue

SpecRoundTrip == InitStore /\ [][NextRoundTrip]_vars

\* C23: for every value v whose SimpleString and Error payloads hold no CR
\* or LF (null and empty bulks, empty and nested arrays, arrays holding
\* null bulks included), Deserialize(Serialize(v)) returns v, the same
\* variant with the same content, and no error.
C23_RoundTrip ==
    Len(outq[1]) = 2
        => /\ outq[1][2].reply.kind = "ok"
           /\ outq[1][2].reply.v = outq[1][1].req
           /\ outq[1][2].reply.rest = <<>>


\* ======================================================================
\* connHandler on a byte stream.  In this specification inq[p] is the bytes
\* the client of connection p has written and the server has not read yet;
\* the client writes its whole stream and closes (sent[p] = 1).  outq[p]
\* lists, for each reply written, the value Deserialize returned and the
\* reply.  The streams carry PING and ECHO: complete requests, inline
\* requests, frames with bad length prefixes, and requests cut short.
\* ======================================================================
Lower == <<"a", "c", "e", "f", "g", "h", "i", "n", "o", "p", "r", "s", "t", "x">>
Upper == <<"A", "C", "E", "F", "G", "H", "I", "N", "O", "P", "R", "S", "T", "X">>

\* strings.ToUpper on the letters of this specification
UpperByte(c) ==
    IF \E i \in 1..Len(Lower) : Lower[i] = c
    THEN Upper[CHOOSE i \in 1..Len(Lower) : Lower[i] = c]
    ELSE c
ToUpperBytes(b) == [i \in 1..Len(b) |-> UpperByte(b[i])]

PingName == <<"P", "I", "N", "G">>
EchoName == <<"E", "C", "H", "O">>

\* The commands table, for the commands the streams name.
WireArity(cmd) == IF cmd = PingName THEN 1 ELSE 2

\* handlePing, handleEcho
WireHandler(cmd, arr) ==
    IF cmd = PingName THEN SimpleString(<<"P", "O", "N", "G">>)
    ELSE IF arr[2].t = "BulkString" THEN arr[2]
    ELSE Error(<<"ERR wrong argument type">>)

\* One turn of connHandler's loop on the value Deserialize returned: the
\* reply it writes.
WireReply(value) ==
    IF value.t # "Array" THEN Error(<<"ERR protocol error">>)
    ELSE IF Len(value.a) = 0 THEN Error(<<"ERR protocol error">>)
    ELSE IF value.a[1].t \notin {"BulkString", "SimpleString"}
    THEN Error(<<"ERR protocol error">>)
    ELSE IF value.a[1] = NullBulk
    THEN Error(<<"ERR unknown command", <<>>>>)
    ELSE LET cmdName == IF value.a[1].t = "BulkString" THEN value.a[1].b
                        ELSE value.a[1].s
             cmd == ToUpperBytes(cmdName)
         IN  IF cmd \notin {PingName, EchoName}
             THEN Error(<<"ERR unknown command", cmd>>)
             ELSE IF Len(value.a) # WireArity(cmd)
             THEN Error(<<"ERR wrong number of arguments for", cmd>>)
             ELSE WireHandler(cmd, value.a)

\* connHandler: Deserialize; on an error the handler returns and the
\* connection is closed; a panic ends the server process, and with it every
\* connection; otherwise the reply is written and the loop goes on.
ConnRead(p) ==
    /\ pc[p] = "idle"
    /\ sent[p] = 1
    /\ LET r == Deserialize(inq[p])
       IN  IF r.kind = "panic"
           THEN /\ pc' = [q \in Conns |-> "crashed"]
                /\ UNCHANGED <<inq, outq>>
           ELSE IF r.kind = "err"
           THEN /\ pc' = [pc EXCEPT ![p] = "closed"]
                /\ inq' = [inq EXCEPT ![p] = <<>>]
                /\ outq' = outq
           ELSE /\ pc' = pc
                /\ inq' = [inq EXCEPT ![p] = r.rest]
                /\ outq' = [outq EXCEPT ![p] =
                               Append(@, [req |-> r.v, reply |-> WireReply(r.v)])]
    /\ UNCHANGED <<data, ttl, now, smu, sent, cur>>

\* Requests as SerializeFromString writes them, and as inline lines.
PingFrame == Serialize(Array(<<BulkString(PingName)>>))
EchoFrame == Serialize(Array(<<BulkString(EchoName), BulkString(<<"h", "i">>)>>))
PingInline == <<"p", "i", "n", "g", CR, LF>>
EchoInline == <<"E", "C", "H", "O", " ", "h", "i", CR, LF>>
EchoInlineWide == <<"E", "C", "H", "O", " ", " ", "h", "i", " ", "x", LF>>

\* Frames whose length prefix is no decimal number or is below -1.
BadLengthFrames ==
    {<<"$", "x", CR, LF>>, <<"*", "x", CR, LF>>, <<"$", CR, LF>>,
     <<"$", "-", "2", CR, LF>>, <<"$", "-", "3", CR, LF>>,
     <<"*", "-", "2", CR, LF>>}

\* Complete values of every variant, and their proper prefixes: streams that
\* end before the value is complete.
WholeFrames ==
    {PingFrame, EchoFrame,
     Serialize(Array(<<SimpleString(PingName)>>)),
     Serialize(SimpleString(<<"h", "i">>)), Serialize(Error(<<"h", "i">>)),
     Serialize(Integer(1)), Serialize(BulkString(<<"h", "i">>))}
CutShort == UNION {{SubSeq(f, 1, n) : n \in 1..(Len(f) - 1)} : f \in WholeFrames}

Streams ==
    LET first == {PingFrame, EchoFrame, PingInline, EchoInline, EchoInlineWide}
                     \cup BadLengthFrames
        last == {<<>>, PingFrame, EchoInline} \cup CutShort
    IN  {f \o g : f \in first \cup {<<>>}, g \in last}

ClientWrite(p) ==
    /\ sent[p] = 0
    /\ \E stream \in Streams : inq' = [inq EXCEPT ![p] = stream]
    /\ sent' = [sent EXCEPT ![p] = 1]
    /\ UNCHANGED <<data, ttl, now, smu, outq, pc, cur>>

\* One client talks; the other connection is idle and shares the process.
NextWire == ClientWrite(1) \/ ConnRead(1)

SpecWire == InitStore /\ [][NextWire]_vars


\* The entry connHandler appended in this step, if it wrote a reply.
Answered == Len(outq'[1]) = Len(outq[1]) + 1
LastEntry == outq'[1][Len(outq'[1])]

\* The stream starts with a line that begins with none of + - : $ *.
InlineFirst(s) ==
    /\ s # <<>>
    /\ Head(s) \notin {"+", "-", ":", "$", "*"}
    /\ ~ReadString(s).eof
    /\ Fields(ReadString(s).line) # <<>>

EveryToken(s) ==
    LET tokens == Fields(ReadString(s).line)
    IN  Array([i \in 1..Len(tokens) |-> BulkString(tokens[i])])

\* C24: when the first byte of a request is none of + - : $ *, the value
\* that reaches the dispatcher is an Array of every whitespace-separated
\* token of the line, in order, each a BulkString, the first byte being the
\* first character of the first token; the dispatcher answers the command
\* with all its arguments.
C24_InlineKeepsEveryToken ==
    [][(ConnRead(1) /\ InlineFirst(inq[1])) =>
           /\ Answered
           /\ LastEntry.req = EveryToken(inq[1])
           /\ LastEntry.reply = WireReply(EveryToken(inq[1]))]_vars

\* The stream starts with a bulk-string or array frame whose length prefix
\* is no decimal number, or is negative and not -1.
BadLength(s) ==
    /\ s # <<>>
    /\ Head(s) \in {"$", "*"}
    /\ ~ReadString(Tail(s)).eof
    /\ LET length == Atoi(TrimSpace(ReadString(Tail(s)).line))
       IN  ~length.ok \/ length.n < 0 - 1

\* C26: a bulk-string or array frame whose length prefix is not a decimal
\* number, or is negative other than -1, is answered with a protocol error
\* reply, the connection stays open with the bytes after the prefix line
\* still to serve, and the server goes on.
C26_BadLengthAnswered ==
    [][(ConnRead(1) /\ BadLength(inq[1])) =>
           /\ Answered
           /\ LastEntry.reply = Error(<<"ERR protocol error">>)
           /\ pc' = pc
           /\ inq'[1] = ReadString(Tail(inq[1])).rest]_vars

\* C27: when the stream ends before a value is complete, Deserialize returns
\* an error and no value, and connHandler closes the connection without
\* writing a reply or dispatching a command.
C27_CutShortCloses ==
    [][(ConnRead(1) /\ inq[1] \in CutShort) =>
           /\ Deserialize(inq[1]).kind = "err"
           /\ pc'[1] = "closed"
           /\ outq'[1] = outq[1]]_vars


\* ======================================================================
\* Every connection issues one EXPIRE k s NX, concurrently with the others,
\* on a store in which k has no expiration record; the clock runs.
\* ======================================================================
ReqsNX == {Req("EXPIRE", <<KeyK, Num(t), OptNX>>) : t \in 1..MaxTtl}

ClientNX == \E p \in Conns : \E r \in ReqsNX : sent[p] = 0 /\ CallTraced(p, r)

NextNX ==
    \/ ClientNX
    \/ Tick
    \/ \E p \in Conns :
        \/ HandleExpire(p)
        \/ ExpireApply(p)

SpecNX == InitStore /\ [][NextNX]_vars

\* The connections whose EXPIRE ... NX replied 1.
Installers == {p \in Conns : outq[p] # <<>> /\ outq[p][1].reply = RInt(1)}

\* C30: once every connection has its reply, exactly one EXPIRE k s NX has
\* replied 1, the record of k is the one that command installed, and all the
\* others have replied 0.
C30_OneNXInstalls ==
    (\A p \in Conns : outq[p] # <<>>) =>
        /\ Cardinality(Installers) = 1
        /\ \A p \in Conns \ Installers : outq[p][1].reply = RInt(0)
        /\ \A p \in Installers :
               /\ ttl[KeyK] # NoExp
               /\ ttl[KeyK].durationSet = ParseInt(outq[p][1].req.args[2]).n * Second


\* ======================================================================
\* Two clients on key k, each waiting for its own replies without reading
\* them: SET of two values, EXPIRE with a short and a long time, and the
\* readers GET and TTL, which both go through Store.Get; the clock runs.
\* ======================================================================
ReqsLazy ==
    {Req("SET", <<KeyK, ElA>>), Req("SET", <<KeyK, ElB>>),
     Req("EXPIRE", <<KeyK, Num(1)>>), Req("EXPIRE", <<KeyK, Num(MaxTtl)>>),
     Req("GET", <<KeyK>>), Req("TTL", <<KeyK>>)}

ClientLazy == \E p \in Talkers : \E r \in ReqsLazy : Call(p, Unread(r))

NextLazy ==
    \/ ClientLazy
    \/ Tick
    \/ \E p \in Conns :
        \/ HandleSet(p)
        \/ HandleExpire(p)
        \/ HandleGet(p)
        \/ GetIsVolatile(p)
        \/ GetIsValid(p)
        \/ GetDel(p)
        \/ HandleTTL(p)
        \/ TTLGet(p)
        \/ TTLIsVolatile(p)
        \/ TTLIsValid(p)
        \/ TTLDel(p)

SpecLazy == InitStore /\ [][NextLazy]_vars

\* The deletion Store.Get performs for connection p, and the key as that Get
\* left it: the value it read, under no record or under one whose deadline
\* has passed.
LazyDel(p) == GetDel(p) \/ TTLDel(p)
StillExpired(p) ==
    LET key == cur[p].req.args[1]
    IN  /\ data[key] = cur[p].val
        /\ ttl[key] = NoExp \/ ~(now < ttl[key].expiryTime)

\* C28: the deletion performed on behalf of a Get that found k expired
\* removes k only if k still holds the value the Get read and is still
\* expired at that moment; a value stored by a Set that completed after the
\* Get's read, or a key given a new deadline by an Expire, is not removed.
C28_LazyDeletionSparesLiveData ==
    [][\A p \in Conns : (LazyDel(p) /\ data' # data) => StillExpired(p)]_vars


\* ======================================================================
\* The two mutexes.  In this specification every connection is an execution
\* context that runs store operations one after the other, and an operation
\* is the sequence of Lock, Unlock, RLock and RUnlock calls it makes on
\* Store.mu (KMu, the keyspace lock) and TTLMap.mu (TMu, the expiration
\* lock); any context may also run a pass of the sweeper.  cur[p] holds the
\* operation of context p, the calls it has still to make, the locks it
\* holds (held) and holds exclusively (excl), and whether it has called
\* Lock and waits for it; smu is the exclusive holder of Store.mu.
\* ======================================================================
KMu == "Store.mu"
TMu == "TTLMap.mu"

LockCall(mu) == [call |-> "Lock", mu |-> mu]
UnlockCall(mu) == [call |-> "Unlock", mu |-> mu]
RLockCall(mu) == [call |-> "RLock", mu |-> mu]
RUnlockCall(mu) == [call |-> "RUnlock", mu |-> mu]

\* Store.isVolatile, TTLMap.IsValid, setExpiration, Delete, GetDuration
isVolatileLocks == <<RLockCall(TMu), RUnlockCall(TMu)>>
IsValidLocks == <<LockCall(TMu), UnlockCall(TMu)>>
setExpirationLocks == <<LockCall(TMu), UnlockCall(TMu)>>
DeleteLocks == <<LockCall(TMu), UnlockCall(TMu)>>
GetDurationLocks == <<RLockCall(TMu), RUnlockCall(TMu)>>

\* Store.Set, Store.Del, Store.IncrBy: one critical section of Store.mu
SetLocks == <<LockCall(KMu), UnlockCall(KMu)>>
DelLocks == <<LockCall(KMu), UnlockCall(KMu)>>
IncrByLocks == <<LockCall(KMu), UnlockCall(KMu)>>

\* A Get that is still holding its shared lock when it deletes.
GetLocksDelUnderRLock ==
    <<RLockCall(KMu)>> \o isVolatileLocks \o IsValidLocks \o DelLocks
        \o <<RUnlockCall(KMu)>>

\* Store.Get on an expired key: the lookup under RLock, isVolatile, IsValid,
\* the deferred Del.
GetLocks ==
    <<RLockCall(KMu), RUnlockCall(KMu)>> \o isVolatileLocks \o IsValidLocks
        \o DelLocks

\* handleExpire: Delete; apply; isVolatile and apply (NX, XX); isVolatile,
\* GetSetDuration and apply (GT, LT).
ExpireLocks ==
    {DeleteLocks, setExpirationLocks, isVolatileLocks \o setExpirationLocks,
     isVolatileLocks \o GetDurationLocks \o setExpirationLocks}

\* handleTTL: GetTTL, then Store.Get
TTLLocks == GetDurationLocks \o GetLocks

\* A pass of the sweeper: the sample of the expiration table, then the
\* removal of an expired key from the keyspace and from the table, the
\* expiration lock taken after the keyspace lock.
SweepLocks ==
    <<RLockCall(TMu), RUnlockCall(TMu), LockCall(KMu), LockCall(TMu),
      UnlockCall(TMu), UnlockCall(KMu)>>

\* The locks held after the calls of `calls`, starting with `held`.
RECURSIVE HeldAfter(_, _)
HeldAfter(calls, held) ==
    IF calls = <<>> THEN held
    ELSE HeldAfter(Tail(calls),
                   IF Head(calls).call \in {"Lock", "RLock"}
                   THEN held \cup {Head(calls).mu}
                   ELSE held \ {Head(calls).mu})

\* An operation returns after any of its calls that leaves it without a
\* lock: the early returns (key absent, not volatile, still valid, option
\* not met, nothing expired in the sample) and the full path.
Returns(calls) ==
    {SubSeq(calls, 1, n) : n \in {m \in 1..Len(calls) :
                                      HeldAfter(SubSeq(calls, 1, m), {}) = {}}}

Operations ==
    {[op |-> "Get", calls |-> c] : c \in Returns(GetLocks)}
    \cup {[op |-> "Set", calls |-> SetLocks], [op |-> "Del", calls |-> DelLocks],
          [op |-> "IncrBy", calls |-> IncrByLocks]}
    \cup {[op |-> "Expire", calls |-> c] :
              c \in UNION {Returns(e) : e \in ExpireLocks}}
    \cup {[op |-> "TTL", calls |-> c] : c \in Returns(TTLLocks)}
    \cup {[op |-> "Sweep", calls |-> c] : c \in Returns(SweepLocks)}

Running(p) == pc[p] = "run"
NextCall(p) == Head(cur[p].calls)

\* sync.RWMutex: who holds mu, shared or exclusively, and who has called
\* Lock and waits.
Holders(mu) == {q \in Conns : Running(q) /\ mu \in cur[q].held}
Waiters(mu) ==
    {q \in Conns : Running(q) /\ cur[q].waiting /\ NextCall(q).mu = mu}
Writer(mu) ==
    {q \in Holders(mu) : mu \in cur[q].excl}

\* Whether the call context p is about to make returns now.  Lock returns
\* once nobody holds the mutex; RLock once no writer holds it and none
\* waits for it; the unlocks always.
CanStep(p) ==
    LET c == NextCall(p)
    IN  IF c.call = "Lock" THEN ~cur[p].waiting \/ Holders(c.mu) = {}
        ELSE IF c.call = "RLock"
        THEN Writer(c.mu) = {} /\ Waiters(c.mu) = {} /\ p \notin Holders(c.mu)
        ELSE TRUE

\* A context starts an operation.
StartOp(p) ==
    /\ pc[p] = "idle"
    /\ \E o \in Operations :
          cur' = [cur EXCEPT ![p] = [t |-> "locks", op |-> o.op, calls |-> o.calls,
                                     held |-> {}, excl |-> {}, waiting |-> FALSE]]
    /\ pc' = [pc EXCEPT ![p] = "run"]
    /\ UNCHANGED <<data, ttl, now, smu, inq, outq, sent>>

\* A context calls Lock: from then on new readers wait behind it.
CallLock(p) ==
    /\ Running(p)
    /\ NextCall(p).call = "Lock"
    /\ ~cur[p].waiting
    /\ cur' = [cur EXCEPT ![p].waiting = TRUE]
    /\ UNCHANGED <<data, ttl, now, smu, inq, outq, sent, pc>>

\* The operation after its next call has returned.
AfterCall(p) ==
    LET c == NextCall(p)
        rest == Tail(cur[p].calls)
    IN  [cur[p] EXCEPT
            !.calls = rest,
            !.waiting = FALSE,
            !.held = IF c.call \in {"Lock", "RLock"} THEN @ \cup {c.mu}
                     ELSE @ \ {c.mu},
            !.excl = IF c.call = "Lock" THEN @ \cup {c.mu}
                     ELSE IF c.call = "Unlock" THEN @ \ {c.mu}
                     ELSE @]

\* Lock, RLock, Unlock or RUnlock returns; after its last call the
\* operation returns and the context is idle again.
LockStep(p) ==
    /\ Running(p)
    /\ NextCall(p).call = "Lock" => cur[p].waiting
    /\ CanStep(p)
    /\ LET c == NextCall(p)
       IN  /\ cur' = [cur EXCEPT ![p] = IF Len(cur[p].calls) = 1 THEN NoCur
                                        ELSE AfterCall(p)]
           /\ pc' = [pc EXCEPT ![p] = IF Len(cur[p].calls) = 1 THEN "idle"
                                      ELSE "run"]
           /\ smu' = IF c.mu # KMu THEN smu
                     ELSE IF c.call = "Lock" THEN p
                     ELSE IF c.call = "Unlock" THEN 0
                     ELSE smu
    /\ UNCHANGED <<data, ttl, now, inq, outq, sent>>

NextLocks == \E p \in Conns : StartOp(p) \/ CallLock(p) \/ LockStep(p)

SpecLocks == InitStore /\ [][NextLocks]_vars

\* C29: no context requests the keyspace lock while it holds the expiration
\* lock; a Get (called by GET or by TTL) holds no keyspace lock when it
\* requests it for the lazy deletion; and whenever an operation is under
\* way, some context's next call can return: never is every context blocked
\* on a lock.
C29_LockOrderNoDeadlock ==
    /\ \A p \in Conns :
          (Running(p) /\ NextCall(p).call \in {"Lock", "RLock"}
                      /\ NextCall(p).mu = KMu)
              => /\ TMu \notin cur[p].held
                 /\ cur[p].op \in {"Get", "TTL"} => KMu \notin cur[p].held
    /\ (\E p \in Conns : Running(p)) => \E p \in Conns : Running(p) /\ CanStep(p)

\* A Get has called Lock on the keyspace lock, to delete the expired key,
\* and waits while another context holds that lock: the Get holds nothing,
\* so the holder goes on.
C29_Witness ==
    \E p, q \in Conns :
        /\ p # q
        /\ Running(p) /\ cur[p].op = "Get" /\ cur[p].waiting
        /\ NextCall(p).mu = KMu /\ cur[p].held = {}
        /\ Running(q) /\ KMu \in cur[q].held


\* ======================================================================
\* Key k has been set once; every connection then calls DEL on it again
\* and again, concurrently with the others, and reads the counts: the first
\* connection names k alone or after the absent key j, the others name it
\* twice in one call.
\* ======================================================================
ReqsDel(p) ==
    IF p = 1 THEN {Req("DEL", <<KeyK>>), Req("DEL", <<KeyJ, KeyK>>)}
    ELSE {Req("DEL", <<KeyK, KeyK>>)}

ClientDel == \E p \in Conns : \E r \in ReqsDel(p) : CallTraced(p, r)

\* store.Set("key", value) has returned before the first Del is called.
InitDel ==
    /\ data = [k \in Keys |-> IF k = KeyK THEN Bytes(ElA) ELSE Absent]
    /\ ttl = [k \in Keys |-> NoExp]
    /\ smu = 0
    /\ NoTraffic
    /\ now = 0

NextDel == ClientDel \/ \E p \in Conns : HandleDel(p)

SpecDel == InitDel /\ [][NextDel]_vars

\* totalDeleted: the sum of the counts returned so far.
RECURSIVE TotalDeleted(_)
TotalDeleted(log) ==
    IF log = <<>> THEN 0 ELSE Head(log).reply.n + TotalDeleted(Tail(log))

\* C39: of the concurrent Del calls on a key that is present once, exactly
\* one removes it and returns 1 for it, and every other returns 0: the
\* counts returned sum to 1 once the key is gone, and to 0 before.
C39_ConcurrentDeletes ==
    TotalDeleted(Log(NumConns)) = IF data[KeyK] = Absent THEN 1 ELSE 0

\* Two connections have their counts: one removed the key, the other came
\* too late.
C39_Witness ==
    \E p, q \in Conns :
        /\ outq[p] # <<>> /\ outq[p][1].reply = RInt(1)
        /\ outq[q] # <<>> /\ outq[q][1].reply = RInt(0)
        /\ \A c \in Conns : Len(outq[c]) = MaxAsk


\* ======================================================================
\* The sweeper, tick by tick.  One client, on connection 1, sets keys and
\* gives them deadlines; the clock runs; the sweeper is the execution
\* context in the last slot, which has no client: pc holds its position,
\* cur its locals (the rounds of this tick, the sampled keys still to look
\* at, the size of the sample and the number found expired).  MaxSample
\* stands for the 20 keys of a sample, MaxRounds for the cap on the rounds of
\* one tick.
\* ======================================================================
Sweeper == NumConns

Volatile == {k \in Keys : ttl[k] # NoExp}
DeadlinePassed(k) == ttl[k] # NoExp /\ ~(now < ttl[k].expiryTime)

\* The sweeper wakes up.
SweepTick ==
    /\ pc[Sweeper] = "idle"
    /\ pc' = [pc EXCEPT ![Sweeper] = "sample"]
    /\ cur' = [cur EXCEPT ![Sweeper] =
                  [t |-> "sweep", rounds |-> 0, todo |-> {}, size |-> 0,
                   expired |-> 0]]
    /\ UNCHANGED <<data, ttl, now, smu, inq, outq, sent>>

\* It samples up to MaxSample keys of the expiration table; with an empty
\* table the tick is over.
SweepSample ==
    /\ pc[Sweeper] = "sample"
    /\ IF Volatile = {}
       THEN /\ pc' = [pc EXCEPT ![Sweeper] = "idle"]
            /\ cur' = [cur EXCEPT ![Sweeper] = NoCur]
       ELSE \E sample \in SUBSET Volatile :
               /\ Cardinality(sample) = Min(MaxSample, Cardinality(Volatile))
               /\ pc' = [pc EXCEPT ![Sweeper] = "keys"]
               /\ cur' = [cur EXCEPT ![Sweeper].rounds = @ + 1,
                                     ![Sweeper].todo = sample,
                                     ![Sweeper].size = Cardinality(sample),
                                     ![Sweeper].expired = 0]
    /\ UNCHANGED <<data, ttl, now, smu, inq, outq, sent>>

\* A sweeper that removes every sampled key, expired or not.
SweepKeyUnchecked ==
    /\ pc[Sweeper] = "keys"
    /\ smu = 0
    /\ \E k \in cur[Sweeper].todo :
          /\ data' = [data EXCEPT ![k] = Absent]
          /\ ttl' = [ttl EXCEPT ![k] = NoExp]
          /\ cur' = [cur EXCEPT ![Sweeper].todo = @ \ {k},
                                ![Sweeper].expired = @ + 1]
    /\ UNCHANGED <<now, smu, inq, outq, sent, pc>>

\* A sweeper that counts the expired keys of its sample and removes none.
SweepKeyCountsOnly ==
    /\ pc[Sweeper] = "keys"
    /\ smu = 0
    /\ \E k \in cur[Sweeper].todo :
          cur' = [cur EXCEPT ![Sweeper].todo = @ \ {k},
                             ![Sweeper].expired =
                                 IF DeadlinePassed(k) THEN @ + 1 ELSE @]
    /\ UNCHANGED <<data, ttl, now, smu, inq, outq, sent, pc>>

\* It looks at one sampled key, under the keyspace lock and then the
\* expiration lock: if the deadline is in the past the key goes from the
\* keyspace and from the expiration table.
SweepKey ==
    /\ pc[Sweeper] = "keys"
    /\ smu = 0
    /\ \E k \in cur[Sweeper].todo :
          /\ IF DeadlinePassed(k)
             THEN /\ data' = [data EXCEPT ![k] = Absent]
                  /\ ttl' = [ttl EXCEPT ![k] = NoExp]
             ELSE UNCHANGED <<data, ttl>>
          /\ cur' = [cur EXCEPT ![Sweeper].todo = @ \ {k},
                                ![Sweeper].expired =
                                    IF DeadlinePassed(k) THEN @ + 1 ELSE @]
    /\ UNCHANGED <<now, smu, inq, outq, sent, pc>>

\* The sample is done: if strictly more than 25% of it was expired and the
\* cap is not reached the sweeper samples again at once, otherwise it sleeps
\* until the next tick.
SweepRoundEnd ==
    /\ pc[Sweeper] = "keys"
    /\ cur[Sweeper].todo = {}
    /\ IF 4 * cur[Sweeper].expired > cur[Sweeper].size
          /\ cur[Sweeper].rounds < MaxRounds
       THEN /\ pc' = [pc EXCEPT ![Sweeper] = "sample"]
            /\ cur' = cur
       ELSE /\ pc' = [pc EXCEPT ![Sweeper] = "idle"]
            /\ cur' = [cur EXCEPT ![Sweeper] = NoCur]
    /\ UNCHANGED <<data, ttl, now, smu, inq, outq, sent>>

ReqsSweep ==
    {Req("SET", <<KeyK, ElA>>), Req("SET", <<KeyJ, ElA>>),
     Req("EXPIRE", <<KeyK, Num(1)>>), Req("EXPIRE", <<KeyJ, Num(1)>>),
     Req("EXPIRE", <<KeyJ, Num(MaxTtl)>>)}

ClientSweep == \E r \in ReqsSweep : Call(1, r)

SweeperNext == SweepTick \/ SweepSample \/ SweepKey \/ SweepRoundEnd

NextSweep ==
    \/ ClientSweep
    \/ Tick
    \/ HandleSet(1)
    \/ HandleExpire(1)
    \/ SweepTick
    \/ SweepSample
    \/ SweepKey
    \/ SweepRoundEnd

SpecSweep == InitStore /\ [][NextSweep]_vars

\* The sweeper's goroutine is scheduled like any other, and its random
\* sample holds each volatile key again and again.
SpecSweepFair ==
    /\ SpecSweep
    /\ WF_vars(SweeperNext)
    /\ \A k \in Keys :
          SF_vars(SweepSample /\ pc'[Sweeper] = "keys" /\ k \in cur'[Sweeper].todo)

\* C36: a step of the sweeper that changes the store removes one key whose
\* expiration record has its deadline in the past at that moment, from the
\* keyspace and from the expiration table, and leaves every other key, the
\* non-volatile and the unexpired among them, as it was; also between the
\* EXPIREs and SETs of a connection.
C36_SweeperRemovesOnlyExpired ==
    [][(pc[Sweeper] = "keys" /\ cur'[Sweeper] # cur[Sweeper]
            /\ (data' # data \/ ttl' # ttl))
           => \E k \in Keys :
                 /\ DeadlinePassed(k)
                 /\ data' = [data EXCEPT ![k] = Absent]
                 /\ ttl' = [ttl EXCEPT ![k] = NoExp]]_vars

\* The client's last request was SET k, k had a deadline of one second and
\* the sweeper has removed it after the deadline; j, whose deadline is still
\* ahead, is in the keyspace and in the table.
C36_Witness ==
    /\ Replied(1, "SET", RSimple("OK"))
    /\ outq[1][1].req.args[1] = KeyK
    /\ data[KeyK] = Absent /\ ttl[KeyK] = NoExp
    /\ data[KeyJ] # Absent /\ ttl[KeyJ] # NoExp /\ now < ttl[KeyJ].expiryTime

\* The records the client's EXPIREs install whose deadline the clock reaches.
Records ==
    UNION {{ExpirationTime(e, d * Second) : e \in (d * Second)..MaxTime} :
              d \in {1, MaxTtl}}

\* C37: under a fairly scheduled sweeper whose samples hold every volatile key
\* again and again, a key whose record's deadline has passed is eventually
\* absent from the keyspace and from the expiration table, unless its record
\* is rewritten, without any access by a client; and every tick of the
\* sweeper ends, after at most MaxRounds samples.
C37_SweeperEvicts ==
    /\ \A k \in Keys : \A r \in Records :
          (ttl[k] = r /\ ~(now < r.expiryTime))
              ~> \/ data[k] = Absent /\ ttl[k] = NoExp
                 \/ ttl[k] # NoExp /\ ttl[k] # r
    /\ (pc[Sweeper] # "idle") ~> (pc[Sweeper] = "idle")
    /\ [](pc[Sweeper] # "idle" => cur[Sweeper].rounds <= MaxRounds)

\* Both keys were given deadlines, both deadlines have passed, and the
\* sweeper, in the second sample of one tick, has emptied keyspace and table.
C37_Witness ==
    /\ pc[Sweeper] = "keys"
    /\ cur[Sweeper].rounds = 2
    /\ cur[Sweeper].todo = {}
    /\ cur[Sweeper].expired = 1
    /\ \A k \in Keys : data[k] = Absent /\ ttl[k] = NoExp
    /\ outq[1] # <<>>


\* ======================================================================
\* connHandler on the values Deserialize returns.  The requests of the
\* connection are values of any variant; one turn of the loop takes the next
\* value, checks it, calls the handler and writes the reply, and the write
\* succeeds or fails.  outq[p] lists, for each turn, the value, the reply and
\* whether the write succeeded.  The commands are PING, ECHO, SET, EXPIRE,
\* EXPIREAT and CONFIG; one client connection.
\* ======================================================================
SetName == <<"S", "E", "T">>
ExpireName == <<"E", "X", "P", "I", "R", "E">>
ExpireAtName == <<"E", "X", "P", "I", "R", "E", "A", "T">>
ConfigName == <<"C", "O", "N", "F", "I", "G">>

\* The commands table: the arity column.
ServeArity(cmd) ==
    CASE cmd = PingName -> 1
      [] cmd = EchoName -> 2
      [] cmd = SetName -> 3
      [] cmd = ConfigName -> 0 - 2
      [] cmd \in {ExpireName, ExpireAtName} -> 0 - 3

\* What one turn of the loop comes to: a reply written with conn.Write's
\* result thrown away (refused), a handler's result written with the result
\* looked at (result), or a panic.
Refused(reply, d, tt) ==
    [kind |-> "reply", class |-> "error", reply |-> reply, data |-> d, ttl |-> tt]
Result(reply, d, tt) ==
    [kind |-> "reply", class |-> "result", reply |-> reply, data |-> d, ttl |-> tt]
Panics(d, tt) ==
    [kind |-> "panic", class |-> "none", reply |-> Nil, data |-> d, ttl |-> tt]

\* x.(parser.BulkString) succeeds; string(x)
IsBulk(x) == x.t = "BulkString"
BulkBytes(x) == IF x = NullBulk THEN <<>> ELSE x.b

\* handleSet
handleSet(arr, d, tt) ==
    IF ~IsBulk(arr[2]) \/ ~IsBulk(arr[3])
    THEN Result(Error(ErrArgType), d, tt)
    ELSE Result(SimpleString(<<"O", "K">>),
                StoreSet(d, BulkBytes(arr[2]), BulkBytes(arr[3])), tt)

\* handleConfig
handleConfig(arr, d, tt) ==
    IF IsBulk(arr[1]) /\ BulkBytes(arr[1]) = ConfigName
    THEN Result(Array(<<BulkString(<<"maxmemory">>), BulkString(<<"0">>)>>), d, tt)
    ELSE Result(Error(<<"ERR invalid format">>), d, tt)

\* handleExpireOption
handleExpireOption(option, key, rec, dur, d, tt) ==
    IF option = OptNX
    THEN IF IsVolatile(tt, key) THEN Result(Integer(0), d, tt)
         ELSE Result(Integer(1), d, Apply(tt, key, rec))
    ELSE IF option = OptXX
    THEN IF IsVolatile(tt, key) THEN Result(Integer(1), d, Apply(tt, key, rec))
         ELSE Result(Integer(0), d, tt)
    ELSE IF option \in {OptGT, OptLT}
    THEN IF IsVolatile(tt, key) /\ DurationAllows(option, dur, tt[key])
         THEN Result(Integer(1), d, Apply(tt, key, rec))
         ELSE Result(Integer(0), d, tt)
    ELSE Result(Error(<<"ERR Unsupported option", option>>), d, tt)

\* handleExpire: args[0].(parser.BulkString) is asserted without a check, and
\* the switch is on the name as the client wrote it.
handleExpire(arr, d, tt, clock) ==
    IF ~IsBulk(arr[1]) THEN Panics(d, tt)
    ELSE IF ~IsBulk(arr[3]) THEN Result(Error(ErrArgType), d, tt)
    ELSE IF ~ParseInt(BulkBytes(arr[3])).ok THEN Result(Error(ErrArgType), d, tt)
    ELSE IF ~IsBulk(arr[2]) THEN Result(Error(ErrArgType), d, tt)
    ELSE LET command == BulkBytes(arr[1])
             key == BulkBytes(arr[2])
             t == ParseInt(BulkBytes(arr[3])).n
             req == Req(IF command = ExpireName THEN "EXPIRE" ELSE "EXPIREAT",
                        <<key, BulkBytes(arr[3])>>)
             dur == SetDuration(req, t, clock)
             rec == SetterRecord(req, dur, clock)
         IN  IF command \notin {ExpireName, ExpireAtName}
             THEN Result(Error(ErrArgType), d, tt)
             ELSE IF \/ command = ExpireName /\ t < 0
                     \/ command = ExpireAtName /\ UnixTime(t) < clock
             THEN Result(Integer(1), d, TTLDelete(tt, key))
             ELSE IF Len(arr) > 3
             THEN IF ~IsBulk(arr[4]) THEN Result(Error(ErrArgType), d, tt)
                  ELSE handleExpireOption(BulkBytes(arr[4]), key, rec, dur, d, tt)
             ELSE Result(Integer(1), d, Apply(tt, key, rec))

\* spec.handler(store, arr)
ServeHandler(cmd, arr, d, tt, clock) ==
    IF cmd \in {PingName, EchoName} THEN Result(WireHandler(cmd, arr), d, tt)
    ELSE IF cmd = SetName THEN handleSet(arr, d, tt)
    ELSE IF cmd = ConfigName THEN handleConfig(arr, d, tt)
    ELSE handleExpire(arr, d, tt, clock)

\* A check that takes an Error for a command name as well.
ProtocolOKOrError(value) ==
    /\ value.t = "Array"
    /\ Len(value.a) > 0
    /\ value.a[1].t \in {"BulkString", "SimpleString", "Error"}

\* connHandler: value.(parser.Array) with at least one element, the first a
\* BulkString or a SimpleString.
ProtocolOK(value) ==
    /\ value.t = "Array"
    /\ Len(value.a) > 0
    /\ value.a[1].t \in {"BulkString", "SimpleString"}

\* string(v) of the first element
CmdName(value) ==
    IF value.a[1] = NullBulk THEN <<>>
    ELSE IF value.a[1].t = "BulkString" THEN value.a[1].b
    ELSE value.a[1].s

\* connHandler: one turn of the loop on the value Deserialize returned, with
\* the store and the clock as they are.
connHandler(value, d, tt, clock) ==
    IF ~ProtocolOK(value) THEN Refused(Error(<<"ERR protocol error">>), d, tt)
    ELSE LET arr == value.a
             cmd == ToUpperBytes(CmdName(value))
         IN  IF cmd \notin {PingName, EchoName, SetName, ConfigName, ExpireName,
                             ExpireAtName}
             THEN Refused(Error(<<"ERR unknown command", cmd>>), d, tt)
             ELSE IF \/ ServeArity(cmd) > 0 /\ Len(arr) # ServeArity(cmd)
                     \/ ServeArity(cmd) < 0 /\ Len(arr) < 0 - ServeArity(cmd)
             THEN Refused(Error(<<"ERR wrong number of arguments for", cmd>>), d, tt)
             ELSE ServeHandler(cmd, arr, d, tt, clock)

\* connHandler: a panic in the handler ends the process (nothing recovers);
\* otherwise the reply is written.  When the write of a handler's result
\* fails the function returns and the connection is closed; the result of
\* the write of an error reply is not looked at, and the loop continues.
Serve(p) ==
    /\ pc[p] = "idle"
    /\ inq[p] # <<>>
    /\ LET out == connHandler(Head(inq[p]), data, ttl, now)
       IN  IF out.kind = "panic"
           THEN /\ pc' = [q \in Conns |-> "crashed"]
                /\ UNCHANGED <<data, ttl, inq, outq>>
           ELSE \E wrote \in BOOLEAN :
                   /\ data' = out.data
                   /\ ttl' = out.ttl
                   /\ inq' = [inq EXCEPT ![p] = Tail(@)]
                   /\ outq' = [outq EXCEPT ![p] =
                                  Append(@, [req |-> Head(inq[p]),
                                             reply |-> out.reply,
                                             wrote |-> wrote])]
                   /\ pc' = [pc EXCEPT ![p] =
                                IF ~wrote /\ out.class = "result" THEN "closed"
                                ELSE "idle"]
    /\ UNCHANGED <<now, smu, sent, cur>>

\* The values the client sends: a command as an array whose first element is
\* the name, in the variant `first`, the other elements bulk strings.
Command(first, args) ==
    Array(<<first>> \o [i \in 1..Len(args) |-> BulkString(args[i])])

ReqsServe ==
    {Nil, Integer(1), Array(<<>>), Array(<<Integer(1)>>),
     Array(<<Error(<<"x">>)>>),
     Command(BulkString(PingName), <<>>),
     Command(SimpleString(<<"p", "i", "n", "g">>), <<>>),
     Command(BulkString(<<"x">>), <<>>),
     Command(BulkString(SetName), <<KeyK>>),
     Command(BulkString(SetName), <<KeyK, ElA>>),
     Command(BulkString(<<"s", "e", "t">>), <<KeyK, ElA>>),
     Command(BulkString(ExpireName), <<KeyK, Num(1)>>),
     Command(SimpleString(ExpireName), <<KeyK, Num(1)>>),
     Command(BulkString(<<"e", "x", "p", "i", "r", "e">>), <<KeyK, Num(1)>>),
     Command(BulkString(ExpireAtName), <<KeyK, Num(1)>>),
     Command(BulkString(ConfigName), <<<<"G", "E", "T">>>>),
     Command(BulkString(<<"c", "o", "n", "f", "i", "g">>), <<<<"G", "E", "T">>>>)}

\* The client sends a value and waits for the reply.
ClientServe ==
    \E v \in ReqsServe :
       /\ pc[1] = "idle"
       /\ inq[1] = <<>>
       /\ sent[1] < MaxReqs
       /\ inq' = [inq EXCEPT ![1] = <<v>>]
       /\ sent' = [sent EXCEPT ![1] = @ + 1]
       /\ UNCHANGED <<data, ttl, now, smu, outq, pc, cur>>

\* The connection is accepted at any time of the clock.
InitServe == EmptyStore /\ NoTraffic /\ now \in 0..MaxTime

NextServe == ClientServe \/ Serve(1)

SpecServe == InitServe /\ [][NextServe]_vars

\* This step is a turn of connection p's loop, on the value Taken(p).
Served(p) ==
    /\ pc[p] = "idle"
    /\ inq[p] # <<>>
    /\ (pc'[p] # pc[p] \/ inq'[p] # inq[p])
Taken(p) == Head(inq[p])
LastTurn(p) == outq'[p][Len(outq'[p])]

\* A non-empty Array whose first element is a BulkString or a SimpleString.
WellFormed(v) ==
    /\ v.t = "Array"
    /\ v.a # <<>>
    /\ v.a[1].t \in {"BulkString", "SimpleString"}

\* C31: a turn on a non-empty Array whose first element is a BulkString or a
\* SimpleString, whatever the name, the number of elements and their
\* variants, writes one reply for it and leaves the loop running (unless
\* that write failed); it never stops the server.
C31_NoRequestStopsTheLoop ==
    [][\A p \in Conns :
          (Served(p) /\ WellFormed(Taken(p)))
              => /\ pc'[p] # "crashed"
                 /\ inq'[p] = Tail(inq[p])
                 /\ Len(outq'[p]) = Len(outq[p]) + 1
                 /\ LastTurn(p).req = Taken(p)
                 /\ (pc'[p] = "idle" \/ ~LastTurn(p).wrote)]_vars

\* C32: a turn on a value that is not a non-empty Array, or whose first
\* element is neither a BulkString nor a SimpleString, replies
\* `ERR protocol error`, leaves keyspace and expiration table as they were,
\* and the loop goes on with the next request.
C32_ProtocolError ==
    [][\A p \in Conns :
          (Served(p) /\ ~WellFormed(Taken(p)))
              => /\ Len(outq'[p]) = Len(outq[p]) + 1
                 /\ LastTurn(p).req = Taken(p)
                 /\ LastTurn(p).reply = Error(<<"ERR protocol error">>)
                 /\ data' = data
                 /\ ttl' = ttl
                 /\ pc'[p] = "idle"
                 /\ inq'[p] = Tail(inq[p])]_vars

\* An array whose first element is an Integer got the protocol error, and the
\* SET that followed on the connection was served.
C32_Witness ==
    /\ Len(outq[1]) = 2
    /\ outq[1][1].req = Array(<<Integer(1)>>)
    /\ outq[1][1].reply = Error(<<"ERR protocol error">>)
    /\ outq[1][2].req = Command(BulkString(SetName), <<KeyK, ElA>>)
    /\ outq[1][2].reply = SimpleString(<<"O", "K">>)
    /\ data[KeyK] = Bytes(ElA)
    /\ pc[1] = "idle"

\* C33: a turn whose write fails, of a handler's result or of an error
\* reply, ends the handler, and a handler that has ended takes no further
\* request.
C33_FailedWriteTerminates ==
    [][\A p \in Conns :
          /\ (Served(p) /\ Len(outq'[p]) > Len(outq[p]) /\ ~LastTurn(p).wrote)
                 => pc'[p] = "closed"
          /\ pc[p] = "closed"
                 => pc'[p] = "closed" /\ outq'[p] = outq[p]]_vars

\* The value with its command name in upper case.
UpperName(v) ==
    IF v.a[1] = NullBulk THEN v
    ELSE IF v.a[1].t = "BulkString"
    THEN Array([v.a EXCEPT ![1] = BulkString(ToUpperBytes(@.b))])
    ELSE Array([v.a EXCEPT ![1] = SimpleString(ToUpperBytes(@.s))])

\* C38: a turn on a command gives the reply, and leaves the store in the
\* state, that the same command with its name in upper case gives from the
\* same state.
C38_CaseBlind ==
    [][\A p \in Conns :
          (Served(p) /\ WellFormed(Taken(p)))
              => LET up == connHandler(UpperName(Taken(p)), data, ttl, now)
                 IN  IF up.kind = "panic" THEN pc'[p] = "crashed"
                     ELSE /\ pc'[p] # "crashed"
                          /\ LastTurn(p).reply = up.reply
                          /\ data' = up.data
                          /\ ttl' = up.ttl]_vars

====
